---- MODULE Spec2Model ----
(***************************************************************************)
(* A model of node-entity-baker: the entity compiler (compileEntities),    *)
(* the class emitters for Doctrine and Entity Framework, and the classes   *)
(* those emitters generate (getters, setters and their hooks).             *)
(*                                                                         *)
(* Strings are sequences of one-character strings, so that trimming,       *)
(* lower-casing and the identifier grammar are computed, not assumed.      *)
(***************************************************************************)
EXTENDS Integers, Sequences, FiniteSets, TLC

VARIABLES
    \* ---- the compiler, one compile() call after the other ----
    schema,      \* the entity map of the entity file, in enumeration order
    target,      \* options.target of the compile calls
    callbacks,   \* which of the two callbacks the caller supplied
    fault,       \* the directory or file the disk refuses to create or write
    run,         \* number of the compile call in flight or last finished
    pc,          \* position inside compileEntities / the generator
    idx,         \* index in schema of the entity being handled
    ctx,         \* the GenerateClassContext of the entity being handled
    err,         \* the 'err' variable of the current loop iteration
    secondaryExisted, \* what exists(extensions file) answered for this entity
    fs,          \* the files below the output directory
    dirs,        \* which output directories exist
    trace,       \* callback invocations of the compile call, in order
    attempts,    \* entity indexes whose loop body was entered, in order
    writes,      \* files written by the emitter during the compile call
    result,      \* how the compile call settled
    snapshot,    \* the files as they were when the compile call started
    firstRun,    \* the files the first compile call wrote
    \* ---- an instance of a generated class ----
    cls,         \* the generated class (what the emitter wrote)
    hooks,       \* which hook methods the extension file defines
    store,       \* the column fields of the instance
    platform,    \* the runtime the generated class runs on
    calls,       \* the last execution of a generated setter, if any
    lastOp,      \* the last operation on the instance and whether it raised
    \* ---- a function of the compiler applied on its own ----
    applied,     \* the function, its arguments and what it returned
    \* ---- a run of the command line (cli.ts) ----
    cli          \* its queues, pending promises, progress units and exit code

compVars == <<schema, target, callbacks, fault, run, pc, idx, ctx, err, secondaryExisted,
              fs, dirs, trace, attempts, writes, result, snapshot, firstRun>>
classVars == <<cls, hooks, store, platform, calls, lastOp>>
vars == <<schema, target, callbacks, fault, run, pc, idx, ctx, err, secondaryExisted,
          fs, dirs, trace, attempts, writes, result, snapshot, firstRun,
          cls, hooks, store, platform, calls, lastOp, applied, cli>>

-----------------------------------------------------------------------------
(* Characters and strings                                                  *)

LowerAlpha == <<"a","b","c","d","e","f","g","h","i","j","k","l","m",
                "n","o","p","q","r","s","t","u","v","w","x","y","z">>
UpperAlpha == <<"A","B","C","D","E","F","G","H","I","J","K","L","M",
                "N","O","P","Q","R","S","T","U","V","W","X","Y","Z">>
DigitChars == <<"0","1","2","3","4","5","6","7","8","9">>

Range(s) == {s[i] : i \in DOMAIN s}

IsLower(c) == c \in Range(LowerAlpha)
IsUpper(c) == c \in Range(UpperAlpha)
IsDigit(c) == c \in Range(DigitChars)
\* what String.prototype.trim() removes
IsSpace(c) == c \in {" ", "\t", "\n", "\r"}

\* code-unit order of the characters the model uses (ASCII)
AsciiOrder == <<"\t", "\n", "\r", " ", "-">> \o DigitChars \o UpperAlpha
              \o <<"_">> \o LowerAlpha \o <<"|">>
CharCode(c) == CHOOSE i \in DOMAIN AsciiOrder : AsciiOrder[i] = c

ToLowerChar(c) ==
    IF IsUpper(c)
      THEN LowerAlpha[CHOOSE i \in DOMAIN UpperAlpha : UpperAlpha[i] = c]
      ELSE c
ToUpperChar(c) ==
    IF IsLower(c)
      THEN UpperAlpha[CHOOSE i \in DOMAIN LowerAlpha : LowerAlpha[i] = c]
      ELSE c

ToLowerCase(s) == [i \in DOMAIN s |-> ToLowerChar(s[i])]

RECURSIVE TrimLeft(_)
TrimLeft(s) ==
    IF s # <<>> /\ IsSpace(Head(s)) THEN TrimLeft(Tail(s)) ELSE s
RECURSIVE TrimRight(_)
TrimRight(s) ==
    IF s # <<>> /\ IsSpace(s[Len(s)])
      THEN TrimRight(SubSeq(s, 1, Len(s) - 1)) ELSE s
Trim(s) == TrimRight(TrimLeft(s))

\* JavaScript's < on strings: lexicographic by code unit
RECURSIVE StrLess(_, _)
StrLess(a, b) ==
    IF b = <<>> THEN FALSE
    ELSE IF a = <<>> THEN TRUE
    ELSE IF Head(a) = Head(b) THEN StrLess(Tail(a), Tail(b))
    ELSE CharCode(Head(a)) < CharCode(Head(b))

RECURSIVE Concat(_)
Concat(ss) == IF ss = <<>> THEN <<>> ELSE Head(ss) \o Concat(Tail(ss))

\* val.split(sep) for a one-character separator
RECURSIVE SplitChar(_, _)
SplitChar(s, sep) ==
    IF \A i \in DOMAIN s : s[i] # sep THEN <<s>>
    ELSE LET k == CHOOSE i \in DOMAIN s :
                    s[i] = sep /\ \A j \in 1..(i - 1) : s[j] # sep
         IN <<SubSeq(s, 1, k - 1)>> \o SplitChar(SubSeq(s, k + 1, Len(s)), sep)

\* parts.join(glue)
RECURSIVE JoinWith(_, _)
JoinWith(parts, glue) ==
    IF parts = <<>> THEN <<>>
    ELSE IF Len(parts) = 1 THEN parts[1]
    ELSE parts[1] \o glue \o JoinWith(Tail(parts), glue)

-----------------------------------------------------------------------------
(* JavaScript values of the entity file: a boolean, a string or undefined  *)

JBool(b) == [t |-> "bool", b |-> b, s |-> <<>>]
JStr(s) == [t |-> "str", b |-> FALSE, s |-> s]
JUndef == [t |-> "undef", b |-> FALSE, s |-> <<>>]

isNullOrUndefined(val) == val.t = "undef"
isBool(val) == ~isNullOrUndefined(val) /\ val.t = "bool"
isString(val) == val.t = "str"

toStringSafe(val) ==
    IF isString(val) THEN val.s
    ELSE IF isNullOrUndefined(val) THEN <<>>
    ELSE IF val.b THEN <<"t","r","u","e">> ELSE <<"f","a","l","s","e">>

normalizeString_NoTrim(val) == ToLowerCase(toStringSafe(val))
normalizeString(val) == Trim(ToLowerCase(toStringSafe(val)))

isEmptyString(val) == Trim(toStringSafe(val)) = <<>>

replaceAll(val, searchFor, replaceWith) ==
    JoinWith(SplitChar(val, searchFor), replaceWith)

toBooleanSafe(val, defaultValue) ==
    IF isBool(val) THEN val.b
    ELSE IF isEmptyString(val) THEN defaultValue
    ELSE IF normalizeString(val) \in
              {<<"0">>, <<"f","a","l","s","e">>, <<"n">>, <<"n","o">>} THEN FALSE
    ELSE IF normalizeString(val) \in
              {<<"1">>, <<"t","r","u","e">>, <<"y">>, <<"y","e","s">>} THEN TRUE
    ELSE TRUE   \* !!val of a non-empty string

-----------------------------------------------------------------------------
(* The compiler's constants                                                *)

TYPE__DEFAULT == <<>>
TYPE_BIGINT == <<"b","i","g","i","n","t">>
TYPE_FLOAT == <<"f","l","o","a","t">>
TYPE_DECIMAL == <<"d","e","c","i","m","a","l">>
TYPE_INT == <<"i","n","t">>
TYPE_INT16 == <<"i","n","t","1","6">>
TYPE_INT32 == <<"i","n","t","3","2">>
TYPE_INTEGER == <<"i","n","t","e","g","e","r">>
TYPE_INT64 == <<"i","n","t","6","4">>
TYPE_JSON == <<"j","s","o","n">>
TYPE_SMALLINT == <<"s","m","a","l","l","i","n","t">>
TYPE_STR == <<"s","t","r">>
TYPE_STRING == <<"s","t","r","i","n","g">>

\* enum EntityFramework
Doctrine == 1
EntityFramework == 2
EntityFrameworkCore == 3

-----------------------------------------------------------------------------
(* parseForClass: the trimmed name, or Invalid for JavaScript's false      *)

Invalid == <<"!">>

\* the character class [a-z|A-Z|0-9|_] of the first regular expression
\* (case-insensitive): letters, digits, the underscore and the bar
InNameClass(c) == IsLower(c) \/ IsUpper(c) \/ IsDigit(c) \/ c = "_" \/ c = "|"

parseForClass(raw) ==
    LET val == Trim(raw)
    IN IF /\ val # <<>>
          /\ \A i \in DOMAIN val : InNameClass(val[i])
          /\ ~IsDigit(val[1])
         THEN val
         ELSE Invalid

-----------------------------------------------------------------------------
(* Columns of a GenerateClassContext.  context.columns is a sequence of    *)
(* [name, col] in insertion order (the enumeration order of the object).   *)

ColumnOf(c, name) ==
    (CHOOSE e \in Range(c.columns) : e.name = name).col

IS_AUTO(c, col) == toBooleanSafe(ColumnOf(c, col).auto, FALSE)
IS_ID_Never(c, col) == FALSE
IS_ID(c, col) == toBooleanSafe(ColumnOf(c, col).id, FALSE)
CAN_BE_NULL(c, col) == toBooleanSafe(ColumnOf(c, col).nul, FALSE)
IS_JSON(c, col) == TYPE_JSON = normalizeString(ColumnOf(c, col).type)

\* the native type, or Unsupported where the code throws
Unsupported == "!unsupported"

TO_DOCTRINE_TYPE(c, col) ==
    LET type == normalizeString(ColumnOf(c, col).type)
    IN IF type \in {TYPE_BIGINT, TYPE_INT64} THEN "bigint"
       ELSE IF type = TYPE_DECIMAL THEN "decimal"
       ELSE IF type = TYPE_FLOAT THEN "float"
       ELSE IF type \in {TYPE_INT, TYPE_INT32, TYPE_INTEGER} THEN "integer"
       ELSE IF type \in {TYPE_INT16, TYPE_SMALLINT} THEN "smallint"
       ELSE IF type = TYPE_JSON THEN "string"
       ELSE IF type \in {TYPE_STR, TYPE_STRING} THEN "string"
       ELSE IF type = TYPE__DEFAULT
              THEN (IF IS_ID(c, col) THEN "integer" ELSE "string")
       ELSE Unsupported

TO_EF_TYPE(c, col) ==
    LET type == normalizeString(ColumnOf(c, col).type)
        clr == IF type \in {TYPE_STR, TYPE_STRING} THEN "string"
               ELSE IF type \in {TYPE_INT, TYPE_INT32, TYPE_INTEGER} THEN "int"
               ELSE IF type = TYPE_JSON THEN "dynamic"
               ELSE IF type \in {TYPE_BIGINT, TYPE_INT64} THEN "long"
               ELSE IF type = TYPE__DEFAULT
                      THEN (IF IS_ID(c, col) THEN "int" ELSE "string")
               ELSE Unsupported
    IN IF clr \in {"int", "long"} /\ CAN_BE_NULL(c, col)
         THEN (IF clr = "int" THEN "int?" ELSE "long?")
         ELSE clr

ClrNullable_Always(type) == TRUE
\* the switch in 'if (canBeNull())'
ClrNullable(type) == type \in {"decimal", "float", "int", "long", "short"}

\* toClrType(type, canBeNull, isID), the two functions given by their results
toClrType(type, canBeNull, isID) ==
    LET tag == normalizeString(type)
        clr == IF tag \in {TYPE_BIGINT, TYPE_INT64} THEN "long"
               ELSE IF tag = TYPE_DECIMAL THEN "decimal"
               ELSE IF tag = TYPE_FLOAT THEN "float"
               ELSE IF tag \in {TYPE_INT, TYPE_INT32, TYPE_INTEGER} THEN "int"
               ELSE IF tag \in {TYPE_INT16, TYPE_SMALLINT} THEN "short"
               ELSE IF tag = TYPE_JSON THEN "dynamic"
               ELSE IF tag \in {TYPE_STR, TYPE_STRING} THEN "string"
               ELSE IF tag = TYPE__DEFAULT THEN (IF isID THEN "int" ELSE "string")
               ELSE Unsupported
    IN IF clr # Unsupported /\ canBeNull /\ ClrNullable(clr)
         THEN clr \o "?"
         ELSE clr

-----------------------------------------------------------------------------
(* compileEntities: normalization of one entity into a context             *)

compareValuesBy_CaseSensitive(x, y) ==
    IF StrLess(x, y) THEN -1 ELSE IF StrLess(y, x) THEN 1 ELSE 0
\* -1, 0 or 1
compareValuesBy(x, y) ==
    LET MAPPED_X == normalizeString(JStr(x))
        MAPPED_Y == normalizeString(JStr(y))
    IN IF MAPPED_X # MAPPED_Y
         THEN (IF StrLess(MAPPED_X, MAPPED_Y) THEN -1
               ELSE IF StrLess(MAPPED_Y, MAPPED_X) THEN 1 ELSE 0)
         ELSE 0

\* Array.prototype.sort with that comparer (a stable insertion sort)
RECURSIVE InsertName(_, _)
InsertName(sorted, x) ==
    IF sorted = <<>> THEN <<x>>
    ELSE IF compareValuesBy(x, sorted[Len(sorted)]) < 0
      THEN Append(InsertName(SubSeq(sorted, 1, Len(sorted) - 1), x),
                  sorted[Len(sorted)])
      ELSE Append(sorted, x)
RECURSIVE SortNames(_)
SortNames(names) ==
    IF names = <<>> THEN <<>>
    ELSE InsertName(SortNames(SubSeq(names, 1, Len(names) - 1)), names[Len(names)])

AlreadyDefined_Never(COLUMNS, COLUMN_NAME) == FALSE
AlreadyDefined_IgnoringCase(COLUMNS, COLUMN_NAME) ==
    \E e \in Range(COLUMNS) : ToLowerCase(e.name) = ToLowerCase(COLUMN_NAME)
\* isObj(COLUMNS[COLUMN_NAME]): the property lookup is by the exact name
AlreadyDefined(COLUMNS, COLUMN_NAME) ==
    \E e \in Range(COLUMNS) : e.name = COLUMN_NAME

\* the loop over ENTITY_CLASS.columns: [error, columns]
RECURSIVE BuildColumns(_, _)
BuildColumns(raw, COLUMNS) ==
    IF raw = <<>> THEN [error |-> "", columns |-> COLUMNS]
    ELSE
      LET C == Head(raw).key
          COLUMN_NAME == parseForClass(C)
          entry == Head(raw).entry
          colEntry == IF entry.isObj
                        THEN [type |-> entry.type, id |-> entry.id,
                              auto |-> entry.auto, nul |-> entry.nul]
                        ELSE [type |-> JStr(normalizeString(entry.value)),
                              id |-> JUndef, auto |-> JUndef, nul |-> JUndef]
      IN IF COLUMN_NAME = Invalid
           THEN [error |-> "The column name is invalid!", columns |-> COLUMNS]
         ELSE IF AlreadyDefined(COLUMNS, COLUMN_NAME)
           THEN [error |-> "The column has already been defined!",
                 columns |-> COLUMNS]
         ELSE BuildColumns(Tail(raw),
                           Append(COLUMNS, [name |-> COLUMN_NAME, col |-> colEntry]))

\* METHODS[C]: each assignment to wordsOfColumn starts from C again, so
\* only the last replacement (of tabs) takes effect
MethodName(C) ==
    LET underscores == replaceAll(C, "_", <<" ">>)
        hyphens == replaceAll(C, "-", <<" ">>)
        wordsOfColumn == replaceAll(C, "\t", <<" ", " ", " ", " ">>)
        split == SplitChar(wordsOfColumn, " ")
        trimmed == [i \in DOMAIN split |-> Trim(split[i])]
        WORDS == SelectSeq(trimmed, LAMBDA w : w # <<>>)
    IN Concat([i \in DOMAIN WORDS |->
                 <<ToUpperChar(WORDS[i][1])>>
                   \o Trim(SubSeq(WORDS[i], 2, Len(WORDS[i])))])

\* the switch over options.target
GeneratorFor(TARGET) ==
    IF TARGET = Doctrine THEN "doctrine"
    ELSE IF TARGET = EntityFramework THEN "ef"
    ELSE IF TARGET = EntityFrameworkCore THEN "efcore"
    ELSE "none"

NoContext == [name |-> <<>>, table |-> JUndef, columns |-> <<>>,
              columnNames |-> <<>>, methods |-> <<>>]

\* The body of the try block up to the call of the generator:
\* status "error" (an exception, caught), "skip" (continue) or "ok".
Normalize(entity, TARGET) ==
    LET CLASS_NAME == parseForClass(entity.key)
        built == BuildColumns(IF entity.hasColumns THEN entity.columns ELSE <<>>,
                              <<>>)
        COLUMNS == built.columns
        keys == [i \in DOMAIN COLUMNS |-> COLUMNS[i].name]
    IN IF CLASS_NAME = Invalid
         THEN [status |-> "error", error |-> "The class name is invalid!",
               context |-> NoContext]
       ELSE IF ~entity.isObj
         THEN [status |-> "skip", error |-> "", context |-> NoContext]
       ELSE IF built.error # ""
         THEN [status |-> "error", error |-> built.error, context |-> NoContext]
       ELSE IF GeneratorFor(TARGET) = "none"
         THEN [status |-> "error", error |-> "Target is not supported!",
               context |-> NoContext]
       ELSE [status |-> "ok", error |-> "",
             context |-> [name |-> CLASS_NAME,
                          table |-> entity.table,
                          columns |-> COLUMNS,
                          columnNames |-> SortNames(keys),
                          methods |-> [i \in DOMAIN keys |->
                                         [name |-> keys[i],
                                          method |-> MethodName(keys[i])]]]]

MethodOf(c, col) == (CHOOSE m \in Range(c.methods) : m.name = col).method

-----------------------------------------------------------------------------
(* The generators: what they write                                         *)

\* let dbTable = toStringSafe(context.entity.table).trim(); '' -> CLASS_NAME
dbTable(c) ==
    IF Trim(toStringSafe(c.table)) = <<>> THEN c.name ELSE Trim(toStringSafe(c.table))

NativeType(g, c, col) ==
    IF g = "doctrine" THEN TO_DOCTRINE_TYPE(c, col) ELSE TO_EF_TYPE(c, col)

\* let hasGetter = true; let hasSetter = !IS_AUTO(C);
hasGetter(c, col) == TRUE
hasSetter_Always(c, col) == TRUE
hasSetter(c, col) == ~IS_AUTO(c, col)

\* the GETTERS and SETTERS maps, filled in the loop over context.columnNames
GETTERS(c) == {col \in Range(c.columnNames) : hasGetter(c, col)}
SETTERS(c) == {col \in Range(c.columnNames) : hasSetter(c, col)}

TypeMappingFails_Never(g, c) == FALSE
\* some column's type makes the type mapper throw
TypeMappingFails(g, c) ==
    \E col \in Range(c.columnNames) : NativeType(g, c, col) = Unsupported

ColumnKeys(c) == [i \in DOMAIN c.columns |-> c.columns[i].name]

\* The class file.  accessors: the getter / setter pair of each column, in
\* the order of context.columnNames; get_getters, get_setters, get_columns:
\* the keys of the arrays (dictionaries) those methods return, in order.
ClassFile(g, c) ==
    [by |-> "emitter", kind |-> "class", generator |-> g,
     name |-> c.name, table |-> dbTable(c),
     fields |-> [i \in DOMAIN c.columnNames |->
                   [col |-> c.columnNames[i],
                    type |-> NativeType(g, c, c.columnNames[i]),
                    id |-> IS_ID(c, c.columnNames[i]),
                    auto |-> IS_AUTO(c, c.columnNames[i])]],
     accessors |-> [i \in DOMAIN c.columnNames |->
                   [col |-> c.columnNames[i],
                    method |-> MethodOf(c, c.columnNames[i]),
                    type |-> NativeType(g, c, c.columnNames[i]),
                    getter |-> c.columnNames[i] \in GETTERS(c),
                    setter |-> c.columnNames[i] \in SETTERS(c),
                    json |-> g = "doctrine" /\ IS_JSON(c, c.columnNames[i])]],
     get_getters |-> IF g = "doctrine"
                       THEN SelectSeq(c.columnNames, LAMBDA k : k \in GETTERS(c))
                       ELSE SelectSeq(ColumnKeys(c), LAMBDA k : k \in GETTERS(c)),
     get_setters |-> IF g = "doctrine"
                       THEN SelectSeq(c.columnNames, LAMBDA k : k \in SETTERS(c))
                       ELSE SelectSeq(ColumnKeys(c), LAMBDA k : k \in SETTERS(c)),
     get_columns |-> SelectSeq(ColumnKeys(c), LAMBDA k : k \in GETTERS(c)),
     keys |-> ColumnKeys(c)]

\* The extension file (trait / partial class): the constructor hook and the
\* four hook stubs; it depends on the class name (and namespace) only.
ExtensionFile(g, c) ==
    [by |-> "emitter", kind |-> "extension", generator |-> g, name |-> c.name]

\* COLUMNS_FOR_XML: orderBy(id first).thenBy(normalized name), stable
XmlLess(c, x, y) ==
    LET rx == IF IS_ID(c, x) THEN 0 ELSE 1
        ry == IF IS_ID(c, y) THEN 0 ELSE 1
    IN rx < ry \/ (rx = ry /\ compareValuesBy(x, y) < 0)
RECURSIVE InsertXml(_, _, _)
InsertXml(c, sorted, x) ==
    IF sorted = <<>> THEN <<x>>
    ELSE IF XmlLess(c, x, sorted[Len(sorted)])
      THEN Append(InsertXml(c, SubSeq(sorted, 1, Len(sorted) - 1), x),
                  sorted[Len(sorted)])
      ELSE Append(sorted, x)
RECURSIVE COLUMNS_FOR_XML(_, _)
COLUMNS_FOR_XML(c, names) ==
    IF names = <<>> THEN <<>>
    ELSE InsertXml(c, COLUMNS_FOR_XML(c, SubSeq(names, 1, Len(names) - 1)),
                   names[Len(names)])

\* The Doctrine mapping file (.dcm.xml)
MappingFile(c) ==
    LET cols == COLUMNS_FOR_XML(c, c.columnNames)
    IN [by |-> "emitter", kind |-> "mapping", generator |-> "doctrine",
        name |-> c.name, table |-> dbTable(c),
        records |-> [i \in DOMAIN cols |->
                       [col |-> cols[i],
                        type |-> TO_DOCTRINE_TYPE(c, cols[i]),
                        id |-> IS_ID(c, cols[i]),
                        auto |-> IS_ID(c, cols[i]) /\ IS_AUTO(c, cols[i])]]]

\* no file at a path
NoFile == [by |-> "nobody"]
\* an extension file the user wrote or edited by hand
UserFile == [by |-> "user", kind |-> "extension"]

-----------------------------------------------------------------------------
(* Entity files the model compiles                                         *)

ObjectColumn(type, id, auto, nul) ==
    [isObj |-> TRUE, value |-> JUndef,
     type |-> type, id |-> id, auto |-> auto, nul |-> nul]
ShorthandColumn(value) ==
    [isObj |-> FALSE, value |-> value,
     type |-> JUndef, id |-> JUndef, auto |-> JUndef, nul |-> JUndef]
Entity(key, isObj, table, hasColumns, columns) ==
    [key |-> key, isObj |-> isObj, table |-> table,
     hasColumns |-> hasColumns, columns |-> columns]

\* "User": { table: "users", columns: { id: { id: true, auto: true,
\*   type: "int32" }, name: "String ", data: "json" } }
UserEntity ==
    Entity(<<"U","s","e","r">>, TRUE, JStr(<<"u","s","e","r","s">>), TRUE,
        << [key |-> <<"i","d">>,
            entry |-> ObjectColumn(JStr(TYPE_INT32), JBool(TRUE), JBool(TRUE), JUndef)],
           [key |-> <<"n","a","m","e">>,
            entry |-> ShorthandColumn(JStr(<<"S","t","r","i","n","g"," ">>))],
           [key |-> <<"d","a","t","a">>,
            entry |-> ShorthandColumn(JStr(TYPE_JSON))] >>)
\* " User": a second key of the map that names the same class; its column
\* of type float is known to Doctrine but not to the Entity Framework mapper
PaddedUserEntity ==
    Entity(<<" ","U","s","e","r">>, TRUE, JUndef, TRUE,
        << [key |-> <<"r","a","t","e">>,
            entry |-> ShorthandColumn(JStr(TYPE_FLOAT))],
           [key |-> <<"N","o">>,
            entry |-> ObjectColumn(JUndef, JStr(<<"y","e","s">>),
                                   JStr(<<"n","o">>), JBool(TRUE))] >>)
\* "1x": not an identifier
BadKeyEntity ==
    Entity(<<"1","x">>, TRUE, JUndef, TRUE,
        << [key |-> <<"i","d">>, entry |-> ShorthandColumn(JStr(TYPE_INT))] >>)
\* "Tag": "oops" -- the description is not an object
NotObjectEntity ==
    Entity(<<"T","a","g">>, FALSE, JUndef, FALSE, <<>>)
\* "Dup": { columns: { "id": "int", " id": "int" } }
DuplicateColumnEntity ==
    Entity(<<"D","u","p">>, TRUE, JUndef, TRUE,
        << [key |-> <<"i","d">>, entry |-> ShorthandColumn(JStr(TYPE_INT))],
           [key |-> <<" ","i","d">>, entry |-> ShorthandColumn(JStr(TYPE_INT))] >>)
\* "Bad": { columns: { "a-b": "int" } }
BadColumnEntity ==
    Entity(<<"B","a","d">>, TRUE, JUndef, TRUE,
        << [key |-> <<"a","-","b">>, entry |-> ShorthandColumn(JStr(TYPE_INT))] >>)
\* "Odd": { columns: { "x": "blob" } } -- no mapper knows the type
UnknownTypeEntity ==
    Entity(<<"O","d","d">>, TRUE, JUndef, TRUE,
        << [key |-> <<"x">>,
            entry |-> ShorthandColumn(JStr(<<"b","l","o","b">>))] >>)
\* "Mixed": { columns: { "user_email": "str", "Id": { id: true },
\*   "id": "int", "Zip": { id: "1", type: "string" } } }
MixedCaseEntity ==
    Entity(<<"M","i","x","e","d">>, TRUE, JUndef, TRUE,
        << [key |-> <<"u","s","e","r","_","e","m","a","i","l">>,
            entry |-> ShorthandColumn(JStr(TYPE_STR))],
           [key |-> <<"I","d">>,
            entry |-> ObjectColumn(JUndef, JBool(TRUE), JUndef, JUndef)],
           [key |-> <<"i","d">>, entry |-> ShorthandColumn(JStr(TYPE_INT))],
           [key |-> <<"Z","i","p">>,
            entry |-> ObjectColumn(JStr(TYPE_STRING), JStr(<<"1">>), JUndef, JUndef)] >>)

Catalogue == << BadKeyEntity, UserEntity, DuplicateColumnEntity, NotObjectEntity,
                PaddedUserEntity, UnknownTypeEntity, BadColumnEntity,
                MixedCaseEntity >>

\* the largest number of entities of an entity file
MaxEntities == 2

\* the entity maps: the entities of the catalogue, at most MaxEntities of
\* them, enumerated in the order of the catalogue
RECURSIVE Pick(_, _)
Pick(entities, chosen) ==
    IF entities = <<>> THEN <<>>
    ELSE IF Len(entities) \in chosen
      THEN Append(Pick(SubSeq(entities, 1, Len(entities) - 1), chosen),
                  entities[Len(entities)])
      ELSE Pick(SubSeq(entities, 1, Len(entities) - 1), chosen)
SchemasOf(entities) ==
    {Pick(entities, chosen) :
       chosen \in {S \in SUBSET (DOMAIN entities) : Cardinality(S) <= MaxEntities}}

ClassNames == {parseForClass(Catalogue[i].key) : i \in DOMAIN Catalogue} \ {Invalid}
FileKinds == {"class", "extension", "mapping"}
Paths == FileKinds \X ClassNames
Directories == {"outDir", "Extensions"}

-----------------------------------------------------------------------------
(* The file system below the output directory                              *)

NoFault == <<"none">>
MkdirsOf(dir) == <<"mkdirs", dir>>
WriteOf(kind, name) == <<"writeFile", kind, name>>

\* FSExtra.mkdirs and helpers.writeFile reject when the disk refuses
IoFails(op) == fault = op

NamesOf(entities) ==
    {parseForClass(entities[i].key) : i \in DOMAIN entities} \ {Invalid}
FaultsOf(entities) ==
    {NoFault} \cup {MkdirsOf(d) : d \in Directories}
              \cup {WriteOf(k, n) : k \in FileKinds, n \in NamesOf(entities)}

Exists(path) == fs[path].by # "nobody"

-----------------------------------------------------------------------------
(* compile() and compileEntities(): one compile call                       *)
(* The callbacks are the caller's observers and return normally.           *)

Invocation(callback, className, e) ==
    [callback |-> callback, className |-> className, err |-> e]

Caught_Swallowed(e) == ""
\* catch (e) { err = e; }
Caught(e) == e

LoopStep_StopOnError(i, n, e) ==
    IF i < n /\ e = "" THEN [pc |-> "before", idx |-> i + 1]
                       ELSE [pc |-> "idle", idx |-> i]
\* after the finally block the for-in loop goes on with the next key
LoopStep(i, n, e) ==
    IF i < n THEN [pc |-> "before", idx |-> i + 1]
             ELSE [pc |-> "idle", idx |-> i]

ClassWriteNeeded_IfAbsent(existing) == existing.by = "nobody"
\* await writeFile(CLASS_FILE_PATH, ...): whatever is at the path
ClassWriteNeeded(existing) == TRUE
ExtensionWriteNeeded_Always(existed) == TRUE
\* if (!(await exists(EXTENSIONS_FILE_PATH))) { ... writeFile ... }
ExtensionWriteNeeded(existed) == ~existed

Generator == GeneratorFor(target)

Begin(r) ==
    /\ pc = "idle"
    /\ run' = r
    /\ idx' = 1
    /\ trace' = <<>>
    /\ attempts' = <<>>
    /\ writes' = <<>>
    /\ snapshot' = fs
    /\ err' = ""
    /\ ctx' = NoContext
    /\ secondaryExisted' = FALSE
    /\ IF schema = <<>>
         THEN /\ pc' = "idle"
              /\ result' = "resolved"
              /\ firstRun' = IF r = 1 THEN <<>> ELSE firstRun
         ELSE /\ pc' = "before"
              /\ result' = "pending"
              /\ firstRun' = firstRun
    /\ UNCHANGED <<schema, target, callbacks, fault, fs, dirs>>
    /\ UNCHANGED classVars
    /\ UNCHANGED <<applied, cli>>

\* the first compile() call on the entity file
Compile == run = 0 /\ Begin(1)

\* if (callbacks.onBeforeGenerateClass) await onBeforeGenerateClass(E, target)
BeforeGenerateClass ==
    /\ pc = "before"
    /\ attempts' = Append(attempts, idx)
    /\ trace' = IF callbacks.onBeforeGenerateClass
                  THEN Append(trace, Invocation("onBeforeGenerateClass",
                                                schema[idx].key, ""))
                  ELSE trace
    /\ err' = ""
    /\ pc' = "normalize"
    /\ UNCHANGED <<schema, target, callbacks, fault, run, idx, ctx,
                   secondaryExisted, fs, dirs, writes, result, snapshot, firstRun>>
    /\ UNCHANGED classVars
    /\ UNCHANGED <<applied, cli>>

\* the try block up to the call of the generator
NormalizeEntity ==
    /\ pc = "normalize"
    /\ LET n == Normalize(schema[idx], target)
       IN /\ ctx' = n.context
          /\ err' = IF n.status = "error" THEN Caught(n.error) ELSE ""
          /\ pc' = IF n.status = "ok" THEN "outDir" ELSE "after"
    /\ UNCHANGED <<schema, target, callbacks, fault, run, idx,
                   secondaryExisted, fs, dirs, trace, attempts, writes, result,
                   snapshot, firstRun>>
    /\ UNCHANGED classVars
    /\ UNCHANGED <<applied, cli>>

\* if (!(await exists(dir))) await FSExtra.mkdirs(dir)
EnsureDirectory(at, dir, then) ==
    /\ pc = at
    /\ IF dirs[dir]
         THEN /\ pc' = then
              /\ UNCHANGED <<dirs, err>>
         ELSE IF IoFails(MkdirsOf(dir))
           THEN /\ err' = Caught("mkdirs failed")
                /\ pc' = "after"
                /\ UNCHANGED dirs
           ELSE /\ dirs' = [dirs EXCEPT ![dir] = TRUE]
                /\ pc' = then
                /\ UNCHANGED err
    /\ UNCHANGED <<schema, target, callbacks, fault, run, idx, ctx,
                   secondaryExisted, fs, trace, attempts, writes, result,
                   snapshot, firstRun>>
    /\ UNCHANGED classVars
    /\ UNCHANGED <<applied, cli>>

EnsureOutDir ==
    EnsureDirectory("outDir", "outDir",
                    IF Generator = "doctrine" THEN "extDir" ELSE "primary")
EnsureExtensionsDir ==
    EnsureDirectory("extDir", "Extensions", "primary")

\* await helpers.writeFile(path, content, 'utf8')
WriteFile(kind, content, then) ==
    LET path == <<kind, ctx.name>>
    IN IF IoFails(WriteOf(kind, ctx.name))
         THEN /\ err' = Caught("writeFile failed")
              /\ pc' = "after"
              /\ UNCHANGED <<fs, writes>>
         ELSE /\ fs' = [fs EXCEPT ![path] = content]
              /\ writes' = Append(writes, [idx |-> idx, kind |-> kind,
                                           name |-> ctx.name, content |-> content])
              /\ pc' = then
              /\ UNCHANGED err

\* the class file is assembled (every column is type-mapped) and written
WriteClassFile ==
    /\ pc = "primary"
    /\ IF TypeMappingFails(Generator, ctx)
         THEN /\ err' = Caught("The data type is not supported!")
              /\ pc' = "after"
              /\ UNCHANGED <<fs, writes>>
         ELSE IF ClassWriteNeeded(fs[<<"class", ctx.name>>])
           THEN WriteFile("class", ClassFile(Generator, ctx), "checkSecondary")
           ELSE /\ pc' = "checkSecondary"
                /\ UNCHANGED <<fs, writes, err>>
    /\ UNCHANGED <<schema, target, callbacks, fault, run, idx, ctx,
                   secondaryExisted, dirs, trace, attempts, result, snapshot,
                   firstRun>>
    /\ UNCHANGED classVars
    /\ UNCHANGED <<applied, cli>>

\* await exists(TRAIT_FILE_PATH) / exists(EXTENSIONS_FILE_PATH)
CheckExtensionFile ==
    /\ pc = "checkSecondary"
    /\ secondaryExisted' = Exists(<<"extension", ctx.name>>)
    /\ pc' = "writeSecondary"
    /\ UNCHANGED <<schema, target, callbacks, fault, run, idx, ctx, err,
                   fs, dirs, trace, attempts, writes, result, snapshot, firstRun>>
    /\ UNCHANGED classVars
    /\ UNCHANGED <<applied, cli>>

WriteExtensionFile ==
    /\ pc = "writeSecondary"
    /\ LET then == IF Generator = "doctrine" THEN "mapping" ELSE "after"
       IN IF ExtensionWriteNeeded(secondaryExisted)
            THEN WriteFile("extension", ExtensionFile(Generator, ctx), then)
            ELSE /\ pc' = then
                 /\ UNCHANGED <<fs, writes, err>>
    /\ UNCHANGED <<schema, target, callbacks, fault, run, idx, ctx,
                   secondaryExisted, dirs, trace, attempts, result, snapshot,
                   firstRun>>
    /\ UNCHANGED classVars
    /\ UNCHANGED <<applied, cli>>

\* Doctrine only: the .dcm.xml file
WriteMappingFile ==
    /\ pc = "mapping"
    /\ WriteFile("mapping", MappingFile(ctx), "after")
    /\ UNCHANGED <<schema, target, callbacks, fault, run, idx, ctx,
                   secondaryExisted, dirs, trace, attempts, result, snapshot,
                   firstRun>>
    /\ UNCHANGED classVars
    /\ UNCHANGED <<applied, cli>>

\* finally { if (callbacks.onClassGenerated) await onClassGenerated(err, E, target) }
ClassGenerated ==
    /\ pc = "after"
    /\ trace' = IF callbacks.onClassGenerated
                  THEN Append(trace, Invocation("onClassGenerated",
                                                schema[idx].key, err))
                  ELSE trace
    /\ LET step == LoopStep(idx, Len(schema), err)
       IN /\ pc' = step.pc
          /\ idx' = step.idx
          /\ result' = IF step.pc = "idle" THEN "resolved" ELSE result
          /\ firstRun' = IF step.pc = "idle" /\ run = 1 THEN writes ELSE firstRun
    /\ UNCHANGED <<schema, target, callbacks, fault, run, ctx, err,
                   secondaryExisted, fs, dirs, attempts, writes, snapshot>>
    /\ UNCHANGED classVars
    /\ UNCHANGED <<applied, cli>>

-----------------------------------------------------------------------------
(* Values of the generated classes' runtimes (PHP, CLR): null, an integer  *)
(* or a string; s holds the decimal digits or the characters.              *)

NullValue == [t |-> "null", s |-> <<>>]
IntValue(digits) == [t |-> "int", s |-> digits]
StringValue(chars) == [t |-> "str", s |-> chars]
\* a hook that leaves its by-reference argument alone
Keep == [t |-> "keep", s |-> <<>>]
\* an exception of the runtime's type conversion
ConversionError == [t |-> "error", s |-> <<>>]

\* \json_encode($newValue) of an integer or of a string of plain characters
JsonEncode(v) ==
    IF v.t = "int" THEN StringValue(v.s)
    ELSE IF v.t = "str" THEN StringValue(<<"\"">> \o v.s \o <<"\"">>)
    ELSE StringValue(<<"n","u","l","l">>)

IsNumeral(chars) == chars # <<>> /\ \A i \in DOMAIN chars : IsDigit(chars[i])

\* default(T)
DefaultOf(type) == IF type \in {"int", "long"} THEN IntValue(<<"0">>) ELSE NullValue

\* _Helpers.ConvertTo<T>(obj)
ConvertTo(type, obj) ==
    IF obj.t = "null" THEN DefaultOf(type)
    ELSE IF type = "dynamic" THEN obj
    ELSE IF type \in {"int", "long", "int?", "long?"} /\ obj.t = "int" THEN obj
    ELSE IF type = "string" /\ obj.t = "str" THEN obj
    ELSE IF type \in {"int", "long"}
      THEN (IF IsNumeral(obj.s) THEN IntValue(obj.s) ELSE ConversionError)
    ELSE IF type = "string" THEN StringValue(obj.s)
    ELSE ConversionError

\* the values the model passes to setters and lets hooks substitute
ArgValues == {NullValue, IntValue(<<"1">>), StringValue(<<"1">>)}

\* the values of the static type of a property
ValuesOfType(type) ==
    IF type = "dynamic" THEN ArgValues
    ELSE IF type = "string" THEN {v \in ArgValues : v.t \in {"null", "str"}}
    ELSE IF type \in {"int?", "long?"} THEN {v \in ArgValues : v.t \in {"null", "int"}}
    ELSE {v \in ArgValues : v.t = "int"}

\* what a before-set hook may return: FALSE, TRUE, nothing, 0
HookReturns == {"false", "true", "null", "zero"}

NoHooks == [onBeforeSet |-> FALSE, returns |-> "null", replaces |-> Keep,
            onSet |-> FALSE, onSetComplete |-> FALSE]

-----------------------------------------------------------------------------
(* The generated class: its setters                                        *)

AccessorOf(col) == CHOOSE a \in Range(cls.accessors) : a.col = col
Columns == Range(cls.keys)
SetterColumns == Range(cls.get_setters)
AutoColumns == {f.col : f \in {x \in Range(cls.fields) : x.auto}}

Veto_Falsy(returned) == returned \in {"false", "null", "zero"}
\* $doSet = FALSE !== $this->onBeforeSet(...)
\* doSet = !object.Equals(onBeforeSet.Invoke(this, args), false)
Veto(returned) == returned = "false"

OnSetInvoked_IfChanged(doSet, oldValue, newValue) == doSet /\ oldValue # newValue
\* the 'if (doSet) { ... onSet ... }' block
OnSetInvoked(doSet, oldValue, newValue) == doSet
\* the call of onSetComplete after that block
OnSetCompleteInvoked(doSet) == TRUE

\* One execution of the generated setter of accessor acc on the fields st.
SetterRun(acc, st, value) ==
    LET oldValue == st[acc.col]
        \* Doctrine, json columns: if (null !== $newValue) json_encode
        encoded == IF acc.json /\ value.t # "null" THEN JsonEncode(value) ELSE value
        hookCalled == hooks.onBeforeSet
        byReference == IF hookCalled /\ hooks.replaces # Keep
                         THEN hooks.replaces ELSE encoded
        \* Entity Framework: valueToSet = ConvertTo<T>(args[1])
        valueToSet == IF hookCalled /\ cls.generator = "ef"
                        THEN ConvertTo(acc.type, byReference)
                        ELSE byReference
        doSet == IF hookCalled THEN ~Veto(hooks.returns) ELSE TRUE
        stored == IF doSet THEN valueToSet ELSE oldValue
        onSet == hooks.onSet /\ OnSetInvoked(doSet, oldValue, valueToSet)
        onSetComplete == hooks.onSetComplete /\ OnSetCompleteInvoked(doSet)
    IN [store |-> [st EXCEPT ![acc.col] = stored],
        call |-> [col |-> acc.col,
                  requested |-> value,
                  hookCalled |-> hookCalled,
                  doSet |-> doSet,
                  oldValue |-> oldValue,
                  stored |-> stored,
                  PropertyChanging |-> cls.generator = "ef",
                  PropertyChanged |->
                      cls.generator = "ef" /\ doSet /\ oldValue # valueToSet,
                  onSet |-> IF onSet THEN <<[newValue |-> valueToSet,
                                             oldValue |-> oldValue]>>
                                     ELSE <<>>,
                  onSetComplete |->
                      IF onSetComplete
                        THEN <<[hasBeenSet |-> doSet, currentValue |-> stored,
                                oldValue |-> oldValue, newValue |-> valueToSet]>>
                        ELSE <<>>]]

\* What the entry of get_setters() / Get_Setters() for a column does with v:
\* Doctrine calls the setter, Entity Framework converts v to the property's
\* type first.
SetterArgument(acc, v) ==
    IF cls.generator = "ef" THEN ConvertTo(acc.type, v) ELSE v

\* set_columns / Set_Columns: each entry goes to $setters[trim(key)].  A key
\* without setter raises (KeyNotFoundException, TypeError) and ends the loop;
\* PHP 7 only warns and goes on with the next entry.
RECURSIVE SetColumnsRun(_, _, _)
SetColumnsRun(entries, st, last) ==
    IF entries = <<>> THEN [store |-> st, calls |-> last, failed |-> FALSE]
    ELSE
      LET key == Trim(Head(entries).key)
      IN IF key \notin SetterColumns
           THEN (IF platform = "php7"
                   THEN [SetColumnsRun(Tail(entries), st, last)
                           EXCEPT !.failed = FALSE]
                   ELSE [store |-> st, calls |-> last, failed |-> TRUE])
         ELSE
           LET acc == AccessorOf(key)
               arg == SetterArgument(acc, Head(entries).value)
           IN IF arg = ConversionError
                THEN [store |-> st, calls |-> last, failed |-> TRUE]
                ELSE LET r == SetterRun(acc, st, arg)
                     IN SetColumnsRun(Tail(entries), r.store, <<r.call>>)

-----------------------------------------------------------------------------
(* Specification of one compile call                                       *)

\* a value of options.target that is not a member of the enum
UnknownTarget == EntityFrameworkCore + 1

NoClass ==
    /\ cls = NoFile
    /\ hooks = NoHooks
    /\ store = <<>>
    /\ platform = "none"
    /\ calls = <<>>
    /\ lastOp = [name |-> "none", failed |-> FALSE]

NothingApplied == [fn |-> "none", args |-> <<>>, returned |-> <<>>]

\* the command line is not running
NoCli == [pc |-> "none"]

\* no compile call was made and no function was applied
CompilerAtRest ==
    /\ applied = NothingApplied
    /\ run = 0
    /\ pc = "idle"
    /\ idx = 0
    /\ ctx = NoContext
    /\ err = ""
    /\ secondaryExisted = FALSE
    /\ fs = [p \in Paths |-> NoFile]
    /\ dirs = [d \in Directories |-> FALSE]
    /\ trace = <<>>
    /\ attempts = <<>>
    /\ writes = <<>>
    /\ result = "none"
    /\ snapshot = [p \in Paths |-> NoFile]
    /\ firstRun = <<>>

NotCompiling ==
    /\ CompilerAtRest
    /\ cli = NoCli

Init ==
    /\ schema \in SchemasOf(Catalogue)
    /\ target \in {Doctrine, EntityFramework, UnknownTarget}
    /\ callbacks \in [onBeforeGenerateClass : BOOLEAN, onClassGenerated : BOOLEAN]
    /\ fault \in FaultsOf(schema)
    /\ NotCompiling
    /\ NoClass

Next ==
    \/ Compile
    \/ BeforeGenerateClass
    \/ NormalizeEntity
    \/ EnsureOutDir
    \/ EnsureExtensionsDir
    \/ WriteClassFile
    \/ CheckExtensionFile
    \/ WriteExtensionFile
    \/ WriteMappingFile
    \/ ClassGenerated

Spec == Init /\ [][Next]_vars

-----------------------------------------------------------------------------
(* Specification of an instance of a generated class: the class emitted    *)
(* for UserEntity, the hook methods its extension file defines (each hook  *)
(* behaves the same way at every call and returns normally), and the       *)
(* public operations of the instance.                                      *)

\* bound: entries of the array (dictionary) passed to set_columns
MaxEntries == 2

EmittedClass(TARGET) ==
    ClassFile(GeneratorFor(TARGET), Normalize(UserEntity, TARGET).context)

\* values a hook may put into its by-reference argument: convertible to the
\* type of every property with a setter
HookValues == {IntValue(<<"2">>)}
WellTyped(c) ==
    {v \in HookValues :
        \A a \in Range(c.accessors) :
            a.setter /\ c.generator = "ef" => ConvertTo(a.type, v) # ConversionError}

HooksOf(c) ==
    {h \in [onBeforeSet : BOOLEAN, returns : HookReturns,
            replaces : {Keep} \cup WellTyped(c),
            onSet : BOOLEAN, onSetComplete : BOOLEAN] :
        ~h.onBeforeSet => (h.returns = "null" /\ h.replaces = Keep)}

PlatformsOf(c) == IF c.generator = "doctrine" THEN {"php7", "php8"} ELSE {"clr"}

\* the keys callers use: the column names, the last one with blanks around it
UserKeys == [i \in DOMAIN UserEntity.columns |-> UserEntity.columns[i].key]
Keys ==
    {IF i = Len(UserKeys) THEN <<" ">> \o UserKeys[i] \o <<" ">> ELSE UserKeys[i] :
        i \in DOMAIN UserKeys}

EntryValues == ArgValues \ {NullValue}

RECURSIVE EntriesUpTo(_)
EntriesUpTo(n) ==
    IF n = 0 THEN {<<>>}
    ELSE LET shorter == EntriesUpTo(n - 1)
         IN shorter \cup
            {Append(es, [key |-> k, value |-> v]) :
                es \in {x \in shorter : Len(x) = n - 1},
                k \in Keys, v \in EntryValues}

\* a PHP array / dictionary has each key once
DistinctKeys(es) == \A i, j \in DOMAIN es : es[i].key = es[j].key => i = j
Entries == {es \in EntriesUpTo(MaxEntries) : DistinctKeys(es)}

\* the arguments a caller may pass to the setter of a column
SetterValues(acc) ==
    IF cls.generator = "ef" THEN ValuesOfType(acc.type) ELSE ArgValues

\* the field initialisers: none in PHP (null), default(T) in C#
InitialStore(c) ==
    [col \in Range(c.keys) |->
        IF c.generator = "ef"
          THEN DefaultOf((CHOOSE f \in Range(c.fields) : f.col = col).type)
          ELSE NullValue]

\* an object the ORM loaded: its generated (auto) columns are filled
LoadedStore(c) ==
    [col \in Range(c.keys) |->
        IF (CHOOSE f \in Range(c.fields) : f.col = col).auto
          THEN IntValue(<<"1">>)
          ELSE InitialStore(c)[col]]

Apply(name, entries) ==
    \E r \in {SetColumnsRun(entries, store, calls)} :
       /\ store' = r.store
       /\ calls' = r.calls
       /\ lastOp' = [name |-> name, failed |-> r.failed]
       /\ UNCHANGED <<cls, hooks, platform>>
       /\ UNCHANGED compVars
       /\ UNCHANGED <<applied, cli>>

\* new User($initialValues): onConstructor / the constructor -> set_columns
Construct ==
    /\ cls # NoFile
    /\ lastOp.name = "none"
    /\ store = InitialStore(cls)
    /\ \E entries \in Entries : Apply("construct", entries)

\* $user->setName($v) / user.Name = v
CallSetter ==
    /\ cls # NoFile
    /\ \E col \in SetterColumns :
         \E v \in SetterValues(AccessorOf(col)) :
           \E r \in {SetterRun(AccessorOf(col), store, v)} :
              /\ store' = r.store
              /\ calls' = <<r.call>>
              /\ lastOp' = [name |-> "setter", failed |-> FALSE]
    /\ UNCHANGED <<cls, hooks, platform>>
    /\ UNCHANGED compVars
    /\ UNCHANGED <<applied, cli>>

\* $user->set_columns($columnsToSet) / user.Set_Columns(columns)
SetColumns ==
    /\ cls # NoFile
    /\ \E entries \in Entries : Apply("set_columns", entries)

\* $user[$columnName] = $newValue / user[columnName] = value
OffsetSet ==
    /\ cls # NoFile
    /\ \E k \in Keys, v \in ArgValues :
         Apply("offsetSet", <<[key |-> k, value |-> v]>>)

\* unset($user[$columnName])
OffsetUnset ==
    /\ cls # NoFile
    /\ cls.generator = "doctrine"
    /\ \E k \in Keys :
         Apply("offsetUnset", <<[key |-> k, value |-> NullValue]>>)

InitClass ==
    /\ schema = <<>>
    /\ target \in {Doctrine, EntityFramework}
    /\ callbacks = [onBeforeGenerateClass |-> FALSE, onClassGenerated |-> FALSE]
    /\ fault = NoFault
    /\ NotCompiling
    /\ cls = EmittedClass(target)
    /\ hooks \in HooksOf(cls)
    /\ platform \in PlatformsOf(cls)
    /\ store \in {InitialStore(cls), LoadedStore(cls)}
    /\ calls = <<>>
    /\ lastOp = [name |-> "none", failed |-> FALSE]

NextClass ==
    \/ Construct
    \/ CallSetter
    \/ SetColumns
    \/ OffsetSet
    \/ OffsetUnset

SpecClass == InitClass /\ [][NextClass]_vars

-----------------------------------------------------------------------------
(* Specification of regeneration: the same schema is compiled twice into   *)
(* the same output directory; before and between the two compile calls the *)
(* user may put an own extension file where the emitter would put its stub.*)

\* the second compile() call with the same options
Recompile == run = 1 /\ Begin(2)

UserEditsExtension ==
    /\ pc = "idle"
    /\ run < 2
    /\ \E n \in NamesOf(schema) :
         /\ fs[<<"extension", n>>] # UserFile
         /\ fs' = [fs EXCEPT ![<<"extension", n>>] = UserFile]
    /\ UNCHANGED <<schema, target, callbacks, fault, run, pc, idx, ctx, err,
                   secondaryExisted, dirs, trace, attempts, writes, result,
                   snapshot, firstRun>>
    /\ UNCHANGED classVars
    /\ UNCHANGED <<applied, cli>>

InitRegen ==
    /\ schema \in SchemasOf(Catalogue)
    /\ target \in {Doctrine, EntityFramework}
    /\ callbacks = [onBeforeGenerateClass |-> TRUE, onClassGenerated |-> TRUE]
    /\ fault \in FaultsOf(schema)
    /\ NotCompiling
    /\ NoClass

NextRegen ==
    \/ Compile
    \/ Recompile
    \/ UserEditsExtension
    \/ BeforeGenerateClass
    \/ NormalizeEntity
    \/ EnsureOutDir
    \/ EnsureExtensionsDir
    \/ WriteClassFile
    \/ CheckExtensionFile
    \/ WriteExtensionFile
    \/ WriteMappingFile
    \/ ClassGenerated

SpecRegen == InitRegen /\ [][NextRegen]_vars

-----------------------------------------------------------------------------
(* Properties of the generated setters (SpecClass)                         *)

\* the value a setter execution works with after encoding, hook and conversion
Effective(r) ==
    LET acc == AccessorOf(r.col)
        encoded == IF cls.generator = "doctrine" /\ acc.json /\ r.requested # NullValue
                     THEN JsonEncode(r.requested) ELSE r.requested
        replaced == IF r.hookCalled /\ hooks.replaces # Keep
                      THEN hooks.replaces ELSE encoded
    IN IF cls.generator = "ef" /\ r.hookCalled
         THEN ConvertTo(acc.type, replaced) ELSE replaced

Vetoed(r) == r.hookCalled /\ hooks.returns = "false"

\* C1 as stated: when the before-set hook returns exactly false the stored
\* value stays and the post-set hook is not invoked; otherwise the stored
\* value becomes the incoming value, or the hook's replacement of it.
C1_AsStated ==
    \A i \in DOMAIN calls :
        LET r == calls[i]
        IN IF Vetoed(r)
             THEN r.stored = r.oldValue /\ r.onSet = <<>>
             ELSE r.stored = IF r.hookCalled /\ hooks.replaces # Keep
                               THEN hooks.replaces ELSE r.requested

\* C1 (amended): when the before-set hook returns exactly false the stored
\* value stays and the post-set hook is not invoked; for every other return
\* value, or without the hook, the stored value becomes the incoming value,
\* JSON-encoded first in a Doctrine json column when it is not null, or the
\* hook's replacement of it, converted to the property type in the Entity
\* Framework setter.
C1_Theorem ==
    \A i \in DOMAIN calls :
        LET r == calls[i]
        IN IF Vetoed(r)
             THEN r.stored = r.oldValue /\ r.onSet = <<>> /\ ~r.doSet
             ELSE r.stored = Effective(r) /\ r.doSet

\* a before-set hook returned 0 (falsy, not false) and the value was stored
\* JSON-encoded
C1_Witness ==
    \E i \in DOMAIN calls :
        /\ calls[i].hookCalled
        /\ hooks.returns = "zero"
        /\ hooks.replaces = Keep
        /\ calls[i].requested = IntValue(<<"1">>)
        /\ calls[i].stored = StringValue(<<"1">>)
        /\ calls[i].oldValue = NullValue

\* C2 as stated: the post-set hook is invoked only if the assignment
\* occurred and the stored value differs from the old value.
C2_AsStated ==
    \A i \in DOMAIN calls :
        calls[i].onSet # <<>> => (calls[i].doSet /\ calls[i].stored # calls[i].oldValue)

\* C2 (amended): the post-set hook, when defined, is invoked exactly when
\* the assignment occurred, also when the column already held the value, and
\* it receives the stored value and the old value; only the Entity Framework
\* PropertyChanged event depends on the value having changed.
C2_Theorem ==
    \A i \in DOMAIN calls :
        LET r == calls[i]
        IN /\ (r.onSet # <<>>) = (hooks.onSet /\ r.doSet)
           /\ r.onSet # <<>> =>
                r.onSet[1] = [newValue |-> r.stored, oldValue |-> r.oldValue]
           /\ r.PropertyChanged =
                (cls.generator = "ef" /\ r.doSet /\ r.stored # r.oldValue)

\* a column was set to the value it already held and the post-set hook ran
C2_Witness ==
    \E i \in DOMAIN calls :
        /\ calls[i].doSet
        /\ calls[i].stored = calls[i].oldValue
        /\ calls[i].oldValue # NullValue
        /\ calls[i].onSet # <<>>

\* C3: the post-set-complete hook, when defined, is invoked exactly once per
\* setter call and receives whether the assignment happened, the value
\* stored afterwards, the value stored before, and the setter's argument as
\* the caller passed it (before hook replacement and encoding).
C3_AsStated ==
    \A i \in DOMAIN calls :
        LET r == calls[i]
        IN hooks.onSetComplete =>
             r.onSetComplete = <<[hasBeenSet |-> r.doSet,
                                  currentValue |-> r.stored,
                                  oldValue |-> r.oldValue,
                                  newValue |-> r.requested]>>

\* C5: no public operation changes the stored value of an auto column.
C5_Theorem ==
    [][cls # NoFile => \A col \in AutoColumns : store'[col] = store[col]]_vars

\* unset($user['id']) on a loaded object raised and left the id alone
C5_Witness ==
    /\ lastOp = [name |-> "offsetUnset", failed |-> TRUE]
    /\ platform = "php8"
    /\ AutoColumns # {}
    /\ \A col \in AutoColumns : store[col] = IntValue(<<"1">>)

-----------------------------------------------------------------------------
(* Properties of one compile call (Spec)                                   *)

\* the columns of an entity as the schema describes them
RawNames(e) == {parseForClass(e.columns[j].key) : j \in DOMAIN e.columns}
RawAuto(e, name) ==
    LET entry == (CHOOSE x \in Range(e.columns) : parseForClass(x.key) = name).entry
    IN entry.isObj /\ toBooleanSafe(entry.auto, FALSE)

ClassWrites == {k \in DOMAIN writes : writes[k].kind = "class"}

\* C4: in every class file written, each column of the entity has a getter
\* and is in the getter map; the columns with a setter, and the keys of the
\* setter map, are exactly the columns whose auto flag is false.
C4_Theorem ==
    \A k \in ClassWrites :
        LET f == writes[k].content
            e == schema[writes[k].idx]
            settable == {n \in RawNames(e) : ~RawAuto(e, n)}
        IN /\ {a.col : a \in {x \in Range(f.accessors) : x.getter}} = RawNames(e)
           /\ Range(f.get_getters) = RawNames(e)
           /\ {a.col : a \in {x \in Range(f.accessors) : x.setter}} = settable
           /\ Range(f.get_setters) = settable

\* an Entity Framework class with an auto column and settable columns
C4_Witness ==
    \E k \in ClassWrites :
        /\ writes[k].content.generator = "ef"
        /\ \E n \in RawNames(schema[writes[k].idx]) : RawAuto(schema[writes[k].idx], n)
        /\ Len(writes[k].content.get_setters) = 2
        /\ Len(writes[k].content.get_getters) = 3

\* C8: the entities are attempted once each in the order of the map, and
\* the call ends having attempted all of them, whatever failed on the way.
C8_Theorem ==
    /\ attempts = [i \in 1..Len(attempts) |-> i]
    /\ Len(attempts) <= Len(schema)
    /\ result = "resolved" => Len(attempts) = Len(schema)

\* the first of two entities failed and the second was attempted
C8_Witness ==
    /\ result = "resolved"
    /\ Len(schema) = 2
    /\ Normalize(schema[1], target).status = "error"
    /\ attempts = <<1, 2>>
    /\ \E k \in ClassWrites : writes[k].idx = 2

\* the files of entity i are there: its class file (and mapping file) written
\* for it, and an extension file at its path
Delivered(i) ==
    LET name == parseForClass(schema[i].key)
    IN /\ \E k \in ClassWrites : writes[k].idx = i
       /\ Exists(<<"extension", name>>)
       /\ Generator = "doctrine" =>
            \E k \in DOMAIN writes : writes[k].idx = i /\ writes[k].kind = "mapping"

\* C9: with both callbacks the invocations alternate onBeforeGenerateClass(E),
\* onClassGenerated(err, E) entity by entity, once each, and err is set
\* exactly for the entities whose normalization or emission failed.
C9_Theorem ==
    (callbacks.onBeforeGenerateClass /\ callbacks.onClassGenerated) =>
        /\ \A k \in DOMAIN trace :
             LET i == (k + 1) \div 2
             IN /\ i <= Len(schema)
                /\ trace[k].className = schema[i].key
                /\ IF k % 2 = 1
                     THEN trace[k].callback = "onBeforeGenerateClass"
                     ELSE /\ trace[k].callback = "onClassGenerated"
                          /\ (trace[k].err = "") =
                               (~schema[i].isObj \/ Delivered(i))
        /\ result = "resolved" => Len(trace) = 2 * Len(schema)
        /\ result = "pending" => Len(trace) \in {2 * idx - 2, 2 * idx - 1}

\* two entities: the first reported with its error, the second without
C9_Witness ==
    /\ callbacks.onBeforeGenerateClass /\ callbacks.onClassGenerated
    /\ result = "resolved"
    /\ Len(trace) = 4
    /\ trace[2].err # ""
    /\ trace[4].err = ""
    /\ schema[2].isObj

\* C10: with a target that has no generator the compile call fails as a
\* whole and nothing is reported per entity through onClassGenerated.
C10_AsStated ==
    (Generator = "none" /\ schema # <<>>) =>
        /\ result # "resolved"
        /\ \A k \in DOMAIN trace : trace[k].callback # "onClassGenerated"

-----------------------------------------------------------------------------
(* Properties of regeneration (SpecRegen)                                  *)

ExtensionPath(n) == <<"extension", n>>
ClassWritesOf(ws) == SelectSeq(ws, LAMBDA w : w.kind = "class")

\* C6: the step that emits the class file writes it whatever is at its
\* path; an extension file that exists is left as it is by every step of an
\* emission, and one that does not exist when the emitter checks is written.
C6_Theorem ==
    [][/\ (pc = "primary" /\ pc' = "checkSecondary") =>
            /\ fs'[<<"class", ctx.name>>] = ClassFile(Generator, ctx)
            /\ writes' = Append(writes, [idx |-> idx, kind |-> "class",
                                         name |-> ctx.name,
                                         content |-> ClassFile(Generator, ctx)])
       /\ pc # "idle" =>
            \A n \in NamesOf(schema) :
                Exists(ExtensionPath(n)) => fs'[ExtensionPath(n)] = fs[ExtensionPath(n)]
       /\ (pc = "writeSecondary" /\ ~Exists(ExtensionPath(ctx.name)) /\ err' = "") =>
            fs'[ExtensionPath(ctx.name)] = ExtensionFile(Generator, ctx)
      ]_vars

\* in the second run the class file was rewritten over the first run's and
\* the user's extension file found by exists() was left in place
C6_Witness ==
    /\ run = 2
    /\ pc = "after"
    /\ err = ""
    /\ secondaryExisted
    /\ fs[ExtensionPath(ctx.name)] = UserFile
    /\ snapshot[<<"class", ctx.name>>] # NoFile
    /\ \E k \in ClassWrites : writes[k].idx = idx

\* C7: the second compile call writes the same class files with the same
\* content as the first, and every extension file that existed when it
\* started is afterwards exactly as it was, user edits included.
C7_Theorem ==
    run = 2 =>
        /\ \A k \in DOMAIN ClassWritesOf(writes) :
             /\ k <= Len(ClassWritesOf(firstRun))
             /\ ClassWritesOf(writes)[k] = ClassWritesOf(firstRun)[k]
        /\ result = "resolved" => ClassWritesOf(writes) = ClassWritesOf(firstRun)
        /\ \A n \in NamesOf(schema) :
             snapshot[ExtensionPath(n)] # NoFile =>
                 fs[ExtensionPath(n)] = snapshot[ExtensionPath(n)]

\* the second run finished: class files as in the first run, the extension
\* file the user edited in between untouched
C7_Witness ==
    /\ run = 2
    /\ result = "resolved"
    /\ ClassWritesOf(writes) # <<>>
    /\ \E n \in NamesOf(schema) :
         /\ \E k \in DOMAIN firstRun :
              firstRun[k].kind = "extension" /\ firstRun[k].name = n
         /\ snapshot[ExtensionPath(n)] = UserFile
         /\ fs[ExtensionPath(n)] = UserFile

-----------------------------------------------------------------------------
(* Properties of error handling in one compile call (Spec)                 *)

\* C11: when creating the output directory fails for an entity, the compile
\* call fails and no later entity is attempted; when writing a file fails,
\* the later entities are still attempted.
C11_AsStated ==
    /\ \A i \in Range(attempts) :
         (fault = MkdirsOf("outDir") /\ Normalize(schema[i], target).status = "ok") =>
             /\ \A j \in Range(attempts) : j <= i
             /\ result # "resolved"
    /\ (fault \notin {MkdirsOf(d) : d \in Directories} /\ result = "resolved") =>
         Len(attempts) = Len(schema)

\* the column keys of an entity are valid names
ValidColumnKeys(e) ==
    \A j \in DOMAIN e.columns : parseForClass(e.columns[j].key) # Invalid
\* two entries of the column map have the same name after trimming
HasDuplicate(e) ==
    /\ e.isObj /\ e.hasColumns
    /\ parseForClass(e.key) # Invalid
    /\ ValidColumnKeys(e)
    /\ \E j, k \in DOMAIN e.columns :
         j # k /\ Trim(e.columns[j].key) = Trim(e.columns[k].key)
\* nothing in the description of an entity makes its compilation fail
WellFormed(e) ==
    /\ e.isObj
    /\ parseForClass(e.key) # Invalid
    /\ ValidColumnKeys(e)
    /\ \A j, k \in DOMAIN e.columns :
         j # k => parseForClass(e.columns[j].key) # parseForClass(e.columns[k].key)
    /\ ~TypeMappingFails(Generator, Normalize(e, target).context)
ReportsOf(i) ==
    {k \in DOMAIN trace : /\ trace[k].callback = "onClassGenerated"
                          /\ trace[k].className = schema[i].key}
Done(i) == idx > i \/ result = "resolved"

\* C12: an entity with two column keys of the same name is reported through
\* onClassGenerated with the duplicate-column error and no file is written
\* for it; a well-formed entity of the same schema is emitted all the same.
C12_Theorem ==
    \A i \in DOMAIN schema :
        HasDuplicate(schema[i]) =>
            /\ \A k \in DOMAIN writes : writes[k].idx # i
            /\ \A k \in ReportsOf(i) :
                 trace[k].err = "The column has already been defined!"
            /\ (Done(i) /\ callbacks.onClassGenerated) => ReportsOf(i) # {}
            /\ (result = "resolved" /\ fault = NoFault /\ Generator # "none") =>
                 \A j \in DOMAIN schema : WellFormed(schema[j]) => Delivered(j)

\* the entity with the duplicate came first and was reported, the
\* well-formed entity after it has its files
C12_Witness ==
    /\ result = "resolved"
    /\ Len(schema) = 2
    /\ HasDuplicate(schema[1])
    /\ ReportsOf(1) # {}
    /\ WellFormed(schema[2])
    /\ Delivered(2)

\* two column keys of an entity differ after trimming, but only in letter case
CaseVariants(e) ==
    /\ WellFormed(e)
    /\ \E j, k \in DOMAIN e.columns :
         /\ Trim(e.columns[j].key) # Trim(e.columns[k].key)
         /\ ToLowerCase(Trim(e.columns[j].key)) = ToLowerCase(Trim(e.columns[k].key))

\* C13: column keys that differ only in letter case are kept as distinct
\* columns of the class and are not reported as duplicates; column keys that
\* are equal after trimming are reported as duplicate.
C13_Theorem ==
    \A i \in DOMAIN schema :
        /\ CaseVariants(schema[i]) =>
             /\ \A k \in ReportsOf(i) :
                  trace[k].err # "The column has already been defined!"
             /\ \A k \in ClassWrites :
                  writes[k].idx = i =>
                    /\ Len(writes[k].content.keys) = Len(schema[i].columns)
                    /\ \A j \in DOMAIN schema[i].columns :
                         writes[k].content.keys[j] = Trim(schema[i].columns[j].key)
             /\ (Done(i) /\ fault = NoFault /\ Generator # "none") =>
                  \E k \in ClassWrites : writes[k].idx = i
        /\ (HasDuplicate(schema[i]) /\ idx = i /\ pc = "after") =>
             err = "The column has already been defined!"

\* a class with the columns Id and id was written
C13_Witness ==
    \E k \in ClassWrites :
        /\ CaseVariants(schema[writes[k].idx])
        /\ <<"I","d">> \in Range(writes[k].content.keys)
        /\ <<"i","d">> \in Range(writes[k].content.keys)

-----------------------------------------------------------------------------
(* Specification of the compiler's functions applied on their own:         *)
(* parseForClass, the derivation of METHODS[C] and the three type mappers. *)

\* bound: the length of the names given to parseForClass
MaxLen == 3

Alphabet == {"a", "Z", "1", "_", "|", "-", " "}
Strings == UNION {[1..n -> Alphabet] : n \in 0..MaxLen}

\* README.md, 'Data types': the tag, the Doctrine type, the CLR type (by its
\* C# keyword where the table names a System type that has one)
ReadmeTypes ==
    { [tag |-> <<"b","i","g","i","n","t">>, doctrine |-> "bigint", clr |-> "long"],
       [tag |-> <<"b","i","n">>, doctrine |-> "blob", clr |-> "byte[]"],
       [tag |-> <<"b","i","n","a","r","y">>, doctrine |-> "blob", clr |-> "byte[]"],
       [tag |-> <<"b","l","o","b">>, doctrine |-> "blob", clr |-> "byte[]"],
       [tag |-> <<"b","o","o","l">>, doctrine |-> "boolean", clr |-> "bool"],
       [tag |-> <<"b","o","o","l","e","a","n">>, doctrine |-> "boolean", clr |-> "bool"],
       [tag |-> <<"d","a","t","e">>, doctrine |-> "date", clr |-> "long"],
       [tag |-> <<"d","a","t","e","t","i","m","e">>, doctrine |-> "datetime", clr |-> "long"],
       [tag |-> <<"d","a","t","e","t","i","m","e","t","z">>, doctrine |-> "datetimetz", clr |-> "DateTimeOffset"],
       [tag |-> <<"d","e","c","i","m","a","l">>, doctrine |-> "decimal", clr |-> "decimal"],
       [tag |-> <<"f","l","o","a","t">>, doctrine |-> "float", clr |-> "float"],
       [tag |-> <<"g","u","i","d">>, doctrine |-> "guid", clr |-> "Guid"],
       [tag |-> <<"i","n","t">>, doctrine |-> "integer", clr |-> "int"],
       [tag |-> <<"i","n","t","1","6">>, doctrine |-> "smallint", clr |-> "short"],
       [tag |-> <<"i","n","t","3","2">>, doctrine |-> "integer", clr |-> "int"],
       [tag |-> <<"i","n","t","6","4">>, doctrine |-> "bigint", clr |-> "long"],
       [tag |-> <<"i","n","t","e","g","e","r">>, doctrine |-> "integer", clr |-> "int"],
       [tag |-> <<"j","s","o","n">>, doctrine |-> "string", clr |-> "dynamic"],
       [tag |-> <<"s","m","a","l","l","i","n","t">>, doctrine |-> "smallint", clr |-> "short"],
       [tag |-> <<"s","t","r">>, doctrine |-> "string", clr |-> "string"],
       [tag |-> <<"s","t","r","i","n","g">>, doctrine |-> "string", clr |-> "string"],
       [tag |-> <<"t","i","m","e">>, doctrine |-> "time", clr |-> "TimeSpan"],
       [tag |-> <<"u","i","n","t","1","6">>, doctrine |-> "smallint", clr |-> "ushort"],
       [tag |-> <<"u","i","n","t","3","2">>, doctrine |-> "integer", clr |-> "uint"],
       [tag |-> <<"u","i","n","t","6","4">>, doctrine |-> "bigint", clr |-> "ulong"],
       [tag |-> <<"u","u","i","d">>, doctrine |-> "guid", clr |-> "Guid"] }

\* the type tags given to the mappers: none, blank, the README's, written
\* in another case and with blanks around, and one nobody knows
TypeTags ==
    {JUndef, JStr(<<>>), JStr(<<" ">>),
     JStr(<<" ","I","N","T","3","2"," ">>), JStr(<<"S","t","r","i","n","g"," ">>),
     JStr(<<"J","s","o","n">>), JStr(<<"\t","B","i","g","I","n","t">>),
     JStr(<<"u","n","o","b","t","a","i","n","i","u","m">>)}
      \cup {JStr(r.tag) : r \in ReadmeTypes}
Flags == {JUndef, JBool(TRUE), JStr(<<"n","o">>)}

\* the context of an entity with the one column "x"
OneColumn(type, id, nul) ==
    [NoContext EXCEPT !.columns = <<[name |-> <<"x">>,
                                     col |-> [type |-> type, id |-> id,
                                              auto |-> JUndef, nul |-> nul]]>>,
                      !.columnNames = << <<"x">> >>]

ParseForClass ==
    \E raw \in Strings :
        /\ applied.fn = "none"
        /\ applied' = [fn |-> "parseForClass", args |-> <<raw>>,
                       returned |-> parseForClass(raw)]
        /\ UNCHANGED compVars
        /\ UNCHANGED classVars
        /\ UNCHANGED cli

\* METHODS[C] for a column name that passed parseForClass
DeriveMethodName ==
    \E raw \in Strings :
        /\ applied.fn = "none"
        /\ parseForClass(raw) # Invalid
        /\ applied' = [fn |-> "METHODS", args |-> <<parseForClass(raw)>>,
                       returned |-> MethodName(parseForClass(raw))]
        /\ UNCHANGED compVars
        /\ UNCHANGED classVars
        /\ UNCHANGED cli

MapDoctrineType ==
    \E type \in TypeTags, id \in Flags, nul \in Flags :
        /\ applied.fn = "none"
        /\ applied' = [fn |-> "TO_DOCTRINE_TYPE", args |-> <<type, id, nul>>,
                       returned |-> TO_DOCTRINE_TYPE(OneColumn(type, id, nul), <<"x">>)]
        /\ UNCHANGED compVars
        /\ UNCHANGED classVars
        /\ UNCHANGED cli

MapEfType ==
    \E type \in TypeTags, id \in Flags, nul \in Flags :
        /\ applied.fn = "none"
        /\ applied' = [fn |-> "TO_EF_TYPE", args |-> <<type, id, nul>>,
                       returned |-> TO_EF_TYPE(OneColumn(type, id, nul), <<"x">>)]
        /\ UNCHANGED compVars
        /\ UNCHANGED classVars
        /\ UNCHANGED cli

MapClrType ==
    \E type \in TypeTags, id \in Flags, nul \in Flags :
        /\ applied.fn = "none"
        /\ applied' = [fn |-> "toClrType", args |-> <<type, id, nul>>,
                       returned |-> toClrType(type, toBooleanSafe(nul, FALSE),
                                              toBooleanSafe(id, FALSE))]
        /\ UNCHANGED compVars
        /\ UNCHANGED classVars
        /\ UNCHANGED cli

InitFn ==
    /\ schema = <<>>
    /\ target = Doctrine
    /\ callbacks = [onBeforeGenerateClass |-> FALSE, onClassGenerated |-> FALSE]
    /\ fault = NoFault
    /\ NotCompiling
    /\ NoClass

NextFn ==
    \/ ParseForClass
    \/ DeriveMethodName
    \/ MapDoctrineType
    \/ MapEfType
    \/ MapClrType

SpecFn == InitFn /\ [][NextFn]_vars

\* the identifier grammar of the specification, on a trimmed name
IsWordChar(c) == IsLower(c) \/ IsUpper(c) \/ IsDigit(c) \/ c = "_"

\* C14: parseForClass returns the trimmed name if it is not empty, has only
\* the characters A-Z a-z 0-9 _ and does not start with a digit, and
\* rejects every other string.
C14_AsStated ==
    applied.fn = "parseForClass" =>
        LET name == Trim(applied.args[1])
        IN applied.returned =
             IF /\ name # <<>>
                /\ \A i \in DOMAIN name : IsWordChar(name[i])
                /\ ~IsDigit(name[1])
               THEN name ELSE Invalid


\* the suffix the specification describes: the words between underscores,
\* hyphens and tabs, each with its first character in upper case
ClaimedSuffix(C) ==
    LET blanks == replaceAll(replaceAll(replaceAll(C, "_", <<" ">>), "-", <<" ">>),
                             "\t", <<" ">>)
        split == SplitChar(blanks, " ")
        trimmed == [i \in DOMAIN split |-> Trim(split[i])]
        words == SelectSeq(trimmed, LAMBDA w : w # <<>>)
    IN Concat([i \in DOMAIN words |->
                 <<ToUpperChar(words[i][1])>> \o SubSeq(words[i], 2, Len(words[i]))])

\* C15: the method-name suffix of a validated column key is the
\* concatenation of its words (split on underscore, hyphen and tab, empty
\* words dropped), each with its first character in upper case.
C15_AsStated ==
    applied.fn = "METHODS" => applied.returned = ClaimedSuffix(applied.args[1])


(***************************************************************************)
(* Properties of the type mappers (SpecFn)                                 *)
(***************************************************************************)

TypeMappers == {"TO_DOCTRINE_TYPE", "TO_EF_TYPE", "toClrType"}

\* the 32-bit integer type of a mapper's ecosystem, the CLR one with or
\* without its nullable marker, and the string type
Int32Of(fn) == IF fn = "TO_DOCTRINE_TYPE" THEN {"integer"} ELSE {"int", "int?"}
StringOf(fn) == {"string"}

CommonTags ==
    { <<>>, <<"s","t","r">>, <<"s","t","r","i","n","g">>, <<"i","n","t">>,
      <<"i","n","t","3","2">>, <<"i","n","t","e","g","e","r">>, <<"j","s","o","n">>,
      <<"b","i","g","i","n","t">>, <<"i","n","t","6","4">> }
WiderTags ==
    { <<"d","e","c","i","m","a","l">>, <<"f","l","o","a","t">>,
      <<"i","n","t","1","6">>, <<"s","m","a","l","l","i","n","t">> }
RecognizedBy(fn) == IF fn = "TO_EF_TYPE" THEN CommonTags ELSE CommonTags \cup WiderTags

\* C17: a type mapper fails with its unsupported-type error exactly for the
\* tags that, trimmed and in lower case, are not in its recognized set; it
\* returns a native type for every other tag, in whatever case and with
\* whatever blanks around it.
C17_Theorem ==
    applied.fn \in TypeMappers =>
        (applied.returned = Unsupported
           <=> Trim(ToLowerCase(toStringSafe(applied.args[1])))
                  \notin RecognizedBy(applied.fn))

\* the Entity Framework mapper was given "unobtainium" and threw
C17_Witness ==
    /\ applied.fn = "TO_EF_TYPE"
    /\ applied.args[1] = JStr(<<"u","n","o","b","t","a","i","n","i","u","m">>)
    /\ applied.returned = Unsupported


\* C18: every type tag of the README's 'Data types' table is accepted by the
\* Doctrine mapper and by the Entity Framework / CLR mappers and maps to
\* the native type of its row (here for a column that is not nullable).
C18_AsStated ==
    \A r \in ReadmeTypes :
        (/\ applied.fn \in TypeMappers
         /\ applied.args[1] = JStr(r.tag)
         /\ applied.args[3] # JBool(TRUE))
          => applied.returned =
               (IF applied.fn = "TO_DOCTRINE_TYPE" THEN r.doctrine ELSE r.clr)


ClrMappers == {"TO_EF_TYPE", "toClrType"}
ClrNumeric == {"int", "long", "short", "float", "decimal"}
ClrNumericMarked == {"int?", "long?", "short?", "float?", "decimal?"}
ClrReference == {"string", "dynamic"}

\* C19: a CLR type mapper that returns a type for a nullable column returns
\* a numeric or decimal type with the marker '?' or string or dynamic
\* without it ('int?' for an id column with no type tag), and for a column
\* that is not nullable it never returns a type with the marker.
C19_Theorem ==
    (applied.fn \in ClrMappers /\ applied.returned # Unsupported) =>
        IF applied.args[3] = JBool(TRUE)
          THEN /\ applied.returned \in ClrNumericMarked \cup ClrReference
               /\ (isEmptyString(applied.args[1]) /\ applied.args[2] = JBool(TRUE))
                    => applied.returned = "int?"
          ELSE applied.returned \in ClrNumeric \cup ClrReference

\* toClrType was given a nullable decimal column
C19_Witness ==
    /\ applied.fn = "toClrType"
    /\ applied.args[1] = JStr(<<"d","e","c","i","m","a","l">>)
    /\ applied.args[3] = JBool(TRUE)
    /\ applied.returned = "decimal?"


(***************************************************************************)
(* Properties of the order of columns in one compile call (Spec)           *)
(***************************************************************************)

RawId(e, name) ==
    LET entry == (CHOOSE x \in Range(e.columns) : parseForClass(x.key) = name).entry
    IN entry.isObj /\ toBooleanSafe(entry.id, FALSE)

\* names lists every column of e once
PermutationOf(names, e) ==
    /\ Len(names) = Cardinality(RawNames(e))
    /\ Range(names) = RawNames(e)

\* no name of the list is before a name that is smaller without letter case
InLexicalOrder(names) ==
    \A a, b \in DOMAIN names :
        a < b => ~StrLess(ToLowerCase(names[b]), ToLowerCase(names[a]))

MappingWrites == {k \in DOMAIN writes : writes[k].kind = "mapping"}
WritingFiles == {"outDir", "extDir", "primary", "checkSecondary", "writeSecondary",
                 "mapping"}

\* C20: the columnNames of a context are the column names of its entity in
\* lexical order without regard to letter case; a Doctrine mapping file
\* lists every column once, the id columns before the others and each of
\* the two groups in lexical order without regard to letter case.
C20_Theorem ==
    /\ pc \in WritingFiles =>
         /\ PermutationOf(ctx.columnNames, schema[idx])
         /\ InLexicalOrder(ctx.columnNames)
    /\ \A k \in MappingWrites :
         LET e == schema[writes[k].idx]
             recs == writes[k].content.records
             cols == [j \in DOMAIN recs |-> recs[j].col]
             ids == SelectSeq(cols, LAMBDA n : RawId(e, n))
             others == SelectSeq(cols, LAMBDA n : ~RawId(e, n))
         IN /\ PermutationOf(cols, e)
            /\ cols = ids \o others
            /\ InLexicalOrder(ids)
            /\ InLexicalOrder(others)

\* the mapping file of the entity with the columns user_email, Id, id, Zip
\* (Id and Zip are id columns) was written
C20_Witness ==
    \E k \in MappingWrites :
        /\ writes[k].idx = idx
        /\ ctx.columnNames = << <<"I","d">>, <<"i","d">>,
                                <<"u","s","e","r","_","e","m","a","i","l">>,
                                <<"Z","i","p">> >>
        /\ [j \in DOMAIN writes[k].content.records |->
              writes[k].content.records[j].col]
             = << <<"I","d">>, <<"Z","i","p">>, <<"i","d">>,
                  <<"u","s","e","r","_","e","m","a","i","l">> >>


(***************************************************************************)
(* Properties of the reports and of the steps of one emission (Spec)       *)
(***************************************************************************)

\* C26: when onClassGenerated is invoked for an entity key with no error,
\* the class file of that entity was written during this compile call.
C26_AsStated ==
    \A k \in DOMAIN trace :
        (trace[k].callback = "onClassGenerated" /\ trace[k].err = "") =>
            \E w \in ClassWrites : schema[writes[w].idx].key = trace[k].className


\* C27: in every class file written no two columns share a method-name
\* suffix (the name of their getter, setter or property).
C27_AsStated ==
    \A k \in ClassWrites :
        \A a, b \in DOMAIN writes[k].content.accessors :
            a # b => writes[k].content.accessors[a].method
                       # writes[k].content.accessors[b].method


\* the writes made so far for the entity being emitted
WritesOfCurrent(kind) == {w \in DOMAIN writes : writes[w].idx = idx /\ writes[w].kind = kind}

\* C28: within one emission the directories are ensured first, then every
\* column is type-mapped, then the class file is written, then the
\* extension file is checked and written if absent, then (Doctrine only) the
\* mapping file is written.  An unsupported type leaves no file of the
\* entity written; a failing write of the extension or mapping file leaves
\* the class file in place and the entity is reported with the error.
C28_Theorem ==
    [][/\ Len(writes') > Len(writes) =>
            LET new == writes'[Len(writes')]
            IN /\ new.idx = idx
               /\ dirs["outDir"]
               /\ Generator = "doctrine" => dirs["Extensions"]
               /\ new.kind = "class" =>
                    /\ \A w \in DOMAIN writes : writes[w].idx # idx
                    /\ \A f \in DOMAIN new.content.fields :
                         new.content.fields[f].type # Unsupported
               /\ new.kind = "extension" =>
                    /\ WritesOfCurrent("class") # {}
                    /\ WritesOfCurrent("extension") = {}
                    /\ WritesOfCurrent("mapping") = {}
                    /\ ~Exists(<<"extension", ctx.name>>)
               /\ new.kind = "mapping" =>
                    /\ Generator = "doctrine"
                    /\ WritesOfCurrent("class") # {}
                    /\ WritesOfCurrent("mapping") = {}
                    /\ Exists(<<"extension", ctx.name>>)
       /\ (err = "" /\ err' = "The data type is not supported!") =>
            /\ \A w \in DOMAIN writes' : writes'[w].idx # idx
            /\ fs' = fs
       /\ (err = "" /\ err' = "writeFile failed" /\ WritesOfCurrent("class") # {}) =>
            /\ \E w \in WritesOfCurrent("class") :
                 fs'[<<"class", ctx.name>>] = writes[w].content
            /\ pc' = "after"
       /\ (pc = "after" /\ err # "" /\ callbacks.onClassGenerated) =>
            trace' = Append(trace, Invocation("onClassGenerated", schema[idx].key, err))
      ]_vars

\* the mapping file could not be written after the class file was
C28_Witness ==
    /\ pc = "after"
    /\ err = "writeFile failed"
    /\ fault = WriteOf("mapping", ctx.name)
    /\ WritesOfCurrent("class") # {}
    /\ Exists(<<"class", ctx.name>>)
    /\ ~Exists(<<"mapping", ctx.name>>)


-----------------------------------------------------------------------------
(* Specification of copy_columns_to / Copy_Columns_To of the class         *)
(* generated for UserEntity.  The class has no extension hooks; the        *)
(* columns get their values through the setters before the copy.           *)

\* \json_decode($valueToReturn, true) of what JsonEncode produced
JsonDecode(v) ==
    IF v.t # "str" THEN v
    ELSE IF IsNumeral(v.s) THEN IntValue(v.s)
    ELSE IF Len(v.s) >= 2 /\ v.s[1] = "\"" /\ v.s[Len(v.s)] = "\""
      THEN StringValue(SubSeq(v.s, 2, Len(v.s) - 1))
    ELSE NullValue

\* what the getter / the property of a column returns
GetterValue(c, st, col) ==
    LET acc == CHOOSE a \in Range(c.accessors) : a.col = col
    IN IF acc.json /\ st[col].t # "null" THEN JsonDecode(st[col]) ELSE st[col]

\* get_columns() / Get_Columns(): column name => getter value
get_columns(c, st) ==
    [i \in DOMAIN c.get_columns |->
        [key |-> c.get_columns[i], value |-> GetterValue(c, st, c.get_columns[i])]]

\* $target[$columnName] = $columnValue on a map held as a set of entries
Put(map, key, value) ==
    {e \in map : e.key # key} \cup {[key |-> key, value |-> value]}

\* the filters of a caller: none; a predicate over (name, value), in PHP a
\* closure or the name of a function; a pattern, given by the names it
\* matches.  The predicates: the column is "name" / the value is not null.
ColumnPredicates == {"isName", "notNull"}
Satisfies(p, key, value) ==
    IF p = "isName" THEN key = <<"n","a","m","e">> ELSE value.t # "null"
NoFilter == [kind |-> "none", form |-> "none", p |-> "none", matches |-> {}]
PatternsOf(c) == {{}, {<<"n","a","m","e">>}, Range(c.keys)}
FiltersOf(c) ==
    {NoFilter}
      \cup {[kind |-> "predicate", form |-> f, p |-> p, matches |-> {}] :
              f \in (IF c.generator = "doctrine" THEN {"closure", "name"}
                                                 ELSE {"closure"}),
              p \in ColumnPredicates}
      \cup {[kind |-> "pattern", form |-> "none", p |-> "none", matches |-> m] :
              m \in PatternsOf(c)}

\* what the filter answers for an entry
Passes(filter, key, value) ==
    IF filter.kind = "none" THEN TRUE
    ELSE IF filter.kind = "predicate" THEN Satisfies(filter.p, key, value)
    ELSE key \in filter.matches

\* the maps a caller passes as target
CopyTargets ==
    {{}, {[key |-> <<"x">>, value |-> IntValue(<<"1">>)]},
     {[key |-> <<"n","a","m","e">>, value |-> StringValue(<<"o","l","d">>)]}}

\* Doctrine: foreach ($this->get_columns() as $columnName => $columnValue)
RECURSIVE CopyEach(_, _, _)
CopyEach(columns, filter, map) ==
    IF columns = <<>> THEN map
    ELSE LET first == columns[1]
             next == IF Passes(filter, first.key, first.value)
                       THEN Put(map, first.key, first.value) ELSE map
         IN CopyEach(Tail(columns), filter, next)

\* The outcomes of one call.  Doctrine: (string)$columnFilter of a closure
\* is an error of the runtime.  Entity Framework: the loop enumerates the
\* target itself and assigns each of its entries to its own key; whether
\* the assignment invalidates the enumerator depends on the runtime.
CopyOutcomes(c, st, map, filter) ==
    IF c.generator = "doctrine"
      THEN IF filter.kind = "predicate" /\ filter.form = "closure"
             THEN {[map |-> map, failed |-> TRUE]}
             ELSE {[map |-> CopyEach(get_columns(c, st), filter, map),
                    failed |-> FALSE]}
      ELSE {[map |-> map, failed |-> f] :
              f \in IF \E e \in map : Passes(filter, e.key, e.value)
                      THEN BOOLEAN ELSE {FALSE}}

\* $user->copy_columns_to($target, $filter) / user.Copy_Columns_To(target, filter)
CopyColumnsTo ==
    /\ cls # NoFile
    /\ applied.fn = "none"
    /\ \E map \in CopyTargets, filter \in FiltersOf(cls) :
         \E r \in CopyOutcomes(cls, store, map, filter) :
            applied' = [fn |-> "copy_columns_to",
                        args |-> <<store, map, filter>>,
                        returned |-> r]
    /\ UNCHANGED classVars
    /\ UNCHANGED compVars
    /\ UNCHANGED cli

InitCopy ==
    /\ schema = <<>>
    /\ target \in {Doctrine, EntityFramework}
    /\ callbacks = [onBeforeGenerateClass |-> FALSE, onClassGenerated |-> FALSE]
    /\ fault = NoFault
    /\ NotCompiling
    /\ cls = EmittedClass(target)
    /\ hooks = NoHooks
    /\ platform \in PlatformsOf(cls)
    /\ store \in {InitialStore(cls), LoadedStore(cls)}
    /\ calls = <<>>
    /\ lastOp = [name |-> "none", failed |-> FALSE]

NextCopy ==
    \/ (applied.fn = "none" /\ CallSetter)
    \/ CopyColumnsTo

SpecCopy == InitCopy /\ [][NextCopy]_vars

\* C21: after copy_columns_to / Copy_Columns_To with a filter (a predicate,
\* a pattern, or none) the target map holds, for every column whose name
\* and getter value satisfy the filter, the entry name -> value, and no
\* entry was added for another column.
C21_AsStated ==
    applied.fn = "copy_columns_to" =>
        LET st == applied.args[1]
            before == applied.args[2]
            filter == applied.args[3]
            after == applied.returned.map
        IN \A col \in Range(cls.keys) :
             LET entry == [key |-> col, value |-> GetterValue(cls, st, col)]
             IN IF Passes(filter, col, entry.value)
                  THEN entry \in after
                  ELSE \A e \in after : e.key = col => e \in before


-----------------------------------------------------------------------------
(* Specification of a run of the command line (cli.ts): the continuation   *)
(* chain NEXT_FILE / NEXT_DIR / NEXT_TARGET with its completion callbacks. *)
(* What runs between two settlements of a promise is one step.  compile()  *)
(* is taken by what the command line sees of it: the two callbacks, once   *)
(* per entity and in order, and how its promise settles; it rejects when a *)
(* callback throws.                                                        *)

MaxFiles == 2
MaxOutDirs == 2

\* the entity keys of every entity file that loads to an object
CliEntities == <<"A", "B">>

\* how the loader of an entity file settles: with an object, with something
\* that is no object, or rejected
LoadOutcomes == {"object", "other", "rejects"}
EntityFileLists == UNION {[1..n -> LoadOutcomes] : n \in 0..MaxFiles}
OutDirLists == {[i \in 1..n |-> i] : n \in 1..MaxOutDirs}
\* frameworks: the selected targets, pushed in this order; never empty
AllFrameworks == <<Doctrine, EntityFramework, EntityFrameworkCore>>
FrameworkLists ==
    {SelectSeq(AllFrameworks, LAMBDA t : t \in chosen) :
        chosen \in (SUBSET {Doctrine, EntityFramework, EntityFrameworkCore}) \ {{}}}

\* a line of progress output: the start of a unit or its result
Line(level, kind) == [level |-> level, kind |-> kind]
ResultLine(level, e) == Line(level, IF e = "" THEN "ok" ELSE "error")

\* write / write_ln: the line, and the units that are started and have no
\* result line yet
RECURSIVE WithoutLast(_, _)
WithoutLast(units, level) ==
    IF units = <<>> THEN <<>>
    ELSE IF units[Len(units)] = level THEN SubSeq(units, 1, Len(units) - 1)
    ELSE Append(WithoutLast(SubSeq(units, 1, Len(units) - 1), level),
                units[Len(units)])
Write(s, line) ==
    [s EXCEPT !.written = Append(@, line),
              !.open = IF line.kind = "start" THEN Append(@, line.level)
                       ELSE WithoutLast(@, line.level)]

LoadPromise(file) ==
    [kind |-> "load", file |-> file, dir |-> 0, target |-> 0,
     entity |-> 0, stage |-> "loading"]
CompilePromise(file, dir, t) ==
    [kind |-> "compile", file |-> file, dir |-> dir, target |-> t,
     entity |-> 1, stage |-> "before"]

\* COMPLETED(err): process.exit(err ? 1 : 0)
COMPLETED(s, e) ==
    [s EXCEPT !.exits = Append(@, IF e = "" THEN 0 ELSE 1),
              !.pc = "exited"]

\* NEXT_FILE(err?): the result line of the file before (if called with an
\* argument), then COMPLETED(null) or the loader of the next file
NEXT_FILE(s, hasArgument, e) ==
    LET reported == IF hasArgument THEN Write(s, ResultLine("file", e)) ELSE s
        entered == [reported EXCEPT !.entered = @ + 1]
    IN IF entered.ENTITY_FILES = <<>>
         THEN COMPLETED(entered, "")
         ELSE [entered EXCEPT !.ENTITY_FILES = Tail(@),
                              !.EF = Head(entered.ENTITY_FILES),
                              !.pending = @ \cup {LoadPromise(Head(entered.ENTITY_FILES))},
                              !.pc = "running"]

DIR_COMPLETED_Drops(s, e) == Write(s, ResultLine("dir", e))
\* DIR_COMPLETED(err): its result line, then NEXT_FILE(null)
DIR_COMPLETED(s, e) == NEXT_FILE(Write(s, ResultLine("dir", e)), TRUE, "")

NEXT_TARGET_AllAtOnce(s) ==
    IF s.ENTITY_FRAMEWORKS = <<>> THEN DIR_COMPLETED(s, "")
    ELSE [Write(s, Line("target", "start")) EXCEPT
            !.ENTITY_FRAMEWORKS = <<>>,
            !.compiled = @ \o [i \in DOMAIN s.ENTITY_FRAMEWORKS |->
                                 <<s.EF, s.OD, s.ENTITY_FRAMEWORKS[i]>>],
            !.pending = @ \cup {CompilePromise(s.EF, s.OD, s.ENTITY_FRAMEWORKS[i]) :
                                  i \in DOMAIN s.ENTITY_FRAMEWORKS}]
\* NEXT_TARGET(): DIR_COMPLETED(null) when no target is left, else the
\* compile call for the next target
NEXT_TARGET(s) ==
    IF s.ENTITY_FRAMEWORKS = <<>> THEN DIR_COMPLETED(s, "")
    ELSE [Write(s, Line("target", "start")) EXCEPT
            !.ENTITY_FRAMEWORKS = Tail(@),
            !.compiled = Append(@, <<s.EF, s.OD, Head(s.ENTITY_FRAMEWORKS)>>),
            !.pending = @ \cup {CompilePromise(s.EF, s.OD, Head(s.ENTITY_FRAMEWORKS))}]

\* TARGET_COMPLETED(err): its result line, then NEXT_TARGET()
TARGET_COMPLETED(s, e) == NEXT_TARGET(Write(s, ResultLine("target", e)))

\* NEXT_DIR(): DIR_COMPLETED(null) when no directory is left, else the
\* targets of the next directory
NEXT_DIR(s) ==
    IF s.OUT_DIRS = <<>> THEN DIR_COMPLETED(s, "")
    ELSE NEXT_TARGET([s EXCEPT !.OD = Head(s.OUT_DIRS),
                               !.OUT_DIRS = Tail(@),
                               !.ENTITY_FRAMEWORKS = s.frameworks])

\* a step begins: nothing written yet, the settled promise (if any) gone
Step(settled) ==
    [cli EXCEPT !.written = <<>>, !.pending = @ \ settled]
Failed(s) == [s EXCEPT !.failed = TRUE]

\* NEXT_FILE(); at the end of the script
StartCli ==
    /\ cli.pc = "start"
    /\ cli' = NEXT_FILE(Step({}), FALSE, "")
    /\ UNCHANGED <<compVars, classVars, applied>>

\* entityFileLoader(EF).then(..., (err) => NEXT_FILE(err))
LoaderSettles ==
    /\ cli.pc = "running"
    /\ \E p \in cli.pending :
         /\ p.kind = "load"
         /\ cli' = IF cli.entityFiles[p.file] = "rejects"
                     THEN NEXT_FILE(Failed(Step({p})), TRUE, "load failed")
                   ELSE IF cli.entityFiles[p.file] = "other"
                     THEN NEXT_FILE(Step({p}), TRUE, "")
                   ELSE NEXT_DIR([Write(Step({p}), Line("file", "start"))
                                    EXCEPT !.OUT_DIRS = cli.outDirs])
    /\ UNCHANGED <<compVars, classVars, applied>>

\* callbacks.onBeforeGenerateClass of the pending compile call; if it throws
\* the promise of compile() is rejected
OnBeforeGenerateClass ==
    /\ cli.pc = "running"
    /\ \E p \in cli.pending, throws \in BOOLEAN :
         /\ p.kind = "compile" /\ p.stage = "before"
         /\ cli' = IF throws
                     THEN TARGET_COMPLETED(Failed(Step({p})), "callback failed")
                     ELSE [Write(Step({p}), Line("entity", "start")) EXCEPT
                             !.pending = @ \cup {[p EXCEPT !.stage = "generating"]}]
    /\ UNCHANGED <<compVars, classVars, applied>>

\* callbacks.onClassGenerated(err, E, target) of the pending compile call
OnClassGenerated ==
    /\ cli.pc = "running"
    /\ \E p \in cli.pending, e \in {"", "emission failed"} :
         /\ p.kind = "compile" /\ p.stage = "generating"
         /\ LET next == IF p.entity < Len(CliEntities)
                          THEN [p EXCEPT !.entity = @ + 1, !.stage = "before"]
                          ELSE [p EXCEPT !.stage = "done"]
                s == Write(Step({p}), ResultLine("entity", e))
            IN cli' = [(IF e = "" THEN s ELSE Failed(s)) EXCEPT
                         !.pending = @ \cup {next}]
    /\ UNCHANGED <<compVars, classVars, applied>>

\* compile(...).then(() => TARGET_COMPLETED(null), ...)
CompileResolves ==
    /\ cli.pc = "running"
    /\ \E p \in cli.pending :
         /\ p.kind = "compile" /\ p.stage = "done"
         /\ cli' = TARGET_COMPLETED(Step({p}), "")
    /\ UNCHANGED <<compVars, classVars, applied>>

InitCli ==
    /\ schema = <<>>
    /\ target = Doctrine
    /\ callbacks = [onBeforeGenerateClass |-> TRUE, onClassGenerated |-> TRUE]
    /\ fault = NoFault
    /\ CompilerAtRest
    /\ NoClass
    /\ \E files \in EntityFileLists, outDirs \in OutDirLists,
          frameworks \in FrameworkLists :
         cli = [pc |-> "start",
                entityFiles |-> files, outDirs |-> outDirs,
                frameworks |-> frameworks,
                ENTITY_FILES |-> [i \in DOMAIN files |-> i],
                OUT_DIRS |-> <<>>, ENTITY_FRAMEWORKS |-> <<>>,
                EF |-> 0, OD |-> 0,
                pending |-> {}, open |-> <<>>, written |-> <<>>,
                compiled |-> <<>>, entered |-> 0, exits |-> <<>>,
                failed |-> FALSE]

NextCli ==
    \/ StartCli
    \/ LoaderSettles
    \/ OnBeforeGenerateClass
    \/ OnClassGenerated
    \/ CompileResolves

SpecCli == InitCli /\ [][NextCli]_vars

\* every pending promise settles and the event loop runs its callbacks
SpecCliFair == SpecCli /\ WF_vars(NextCli)


-----------------------------------------------------------------------------
(* Properties of a run of the command line (SpecCli, SpecCliFair)          *)

CliRuns == cli.pc \in {"start", "running", "exited"}
CliExited == cli.pc = "exited"
ObjectFiles == {f \in DOMAIN cli.entityFiles : cli.entityFiles[f] = "object"}
\* the combinations of (input file that loads to an object, configured
\* output directory, selected target)
Combinations ==
    {<<f, cli.outDirs[d], cli.frameworks[t]>> :
        f \in ObjectFiles, d \in DOMAIN cli.outDirs, t \in DOMAIN cli.frameworks}
CompileCalls(c) == Cardinality({i \in DOMAIN cli.compiled : cli.compiled[i] = c})

\* C22: over a run, compile is invoked exactly once for every combination
\* of input file that loads to an object, configured output directory and
\* selected target, also with more than one output directory or target.
C22_AsStated ==
    CliExited => \A c \in Combinations : CompileCalls(c) = 1

\* C25: at the end of a run the exit code is 1 if some input file, compile
\* call or entity emission failed during the run, and 0 only if none failed.
C25_AsStated ==
    CliExited => (cli.exits[Len(cli.exits)] = 1 <=> cli.failed)

\* C24: after a failed load or a rejected compile call the run still
\* processes every remaining target, output directory and input file: at
\* the end every input file was taken and every combination was compiled.
C24_AsStated ==
    (CliExited /\ cli.failed) =>
        /\ cli.ENTITY_FILES = <<>>
        /\ \A c \in Combinations : CompileCalls(c) >= 1


\* the units of progress a run may have open: a file, its target, its entity
Nesting == <<"file", "target", "entity">>
ProperlyNested(units) ==
    /\ Len(units) <= Len(Nesting)
    /\ \A i \in DOMAIN units : units[i] = Nesting[i]
OpenUnitsOf(p) ==
    IF p.kind = "load" THEN <<>>
    ELSE IF p.stage = "generating" THEN Nesting
    ELSE SubSeq(Nesting, 1, 2)
OneInFlight ==
    CliRuns =>
        /\ Cardinality(cli.pending) <= 1
        /\ ProperlyNested(cli.open)
        /\ \A p \in cli.pending : cli.open = OpenUnitsOf(p)
        /\ (cli.pending = {} => cli.open = <<>>)
StartsAfterSettled ==
    /\ Len(cli'.compiled) # Len(cli.compiled) =>
         /\ Len(cli'.compiled) = Len(cli.compiled) + 1
         /\ cli.pending # {}
         /\ cli.pending \cap cli'.pending = {}
         /\ \A p \in cli.pending :
               p.kind = "load" \/ p.stage \in {"before", "done"}
         /\ LET c == cli'.compiled[Len(cli'.compiled)]
            IN cli'.pending = {CompilePromise(c[1], c[2], c[3])}
    /\ cli'.entered # cli.entered =>
         /\ cli'.entered = cli.entered + 1
         /\ cli.pending \cap cli'.pending = {}
         /\ \A p \in cli'.pending : p = LoadPromise(cli'.EF)
    /\ (cli'.written # <<>> /\ cli'.written[1].kind # "start"
          /\ cli.open # <<>>) =>
         cli.open[Len(cli.open)] = cli'.written[1].level

\* C23: at every point of a run at most one compile call, and within it at
\* most one entity emission, is in flight; a compile call or a loader is
\* started only in the step in which the promise before it settled, and
\* the progress units are properly nested: a result line closes the
\* innermost open unit.
C23_Theorem == []OneInFlight /\ [][StartsAfterSettled]_vars

\* the second entity of a later compile call of the run is being generated
C23_Witness ==
    /\ cli.pc = "running"
    /\ Len(cli.compiled) >= 2
    /\ \E p \in cli.pending :
         p.kind = "compile" /\ p.stage = "generating" /\ p.entity = 2

ExitedOnce ==
    CliRuns =>
        /\ Len(cli.exits) <= 1
        /\ CliExited <=> Len(cli.exits) = 1
        /\ CliExited => (cli.ENTITY_FILES = <<>> /\ cli.pending = {})
        /\ cli.pc # "start" =>
             cli.entered = Len(cli.entityFiles) - Len(cli.ENTITY_FILES)
                             + (IF CliExited THEN 1 ELSE 0)

\* C30: when every loader and every compile call settles, the run reaches
\* COMPLETED, reaches it once, and only with the queue of input files
\* empty; NEXT_FILE is entered once at the start and once per input file
\* that is completed.
C30_Theorem == <>CliExited /\ []ExitedOnce

\* a run over the largest list of input files, with a compile call, exited
C30_Witness ==
    /\ CliExited
    /\ Len(cli.entityFiles) = MaxFiles
    /\ cli.entered = MaxFiles + 1
    /\ cli.compiled # <<>>


-----------------------------------------------------------------------------
(* Specification of the settings of the command line (cli.ts): the config  *)
(* files are applied in order, then the options of the command line, then  *)
(* the targets are selected.                                               *)

MaxConfigs == 1

\* a config file by its three framework flags; JUndef: not specified
ConfigFiles ==
    [doctrine : Flags, entityFramework : Flags, entityFrameworkCore : Flags]
ConfigFileLists == UNION {[1..n -> ConfigFiles] : n \in 0..MaxConfigs}
\* CMD_ARGS[A] of a framework option: not given, given as true, or given
\* with some other value
Options == {"absent", "true", "other"}
CommandLines ==
    [doctrine : Options, entityFramework : Options, entityFrameworkCore : Options]
SETTINGS ==
    [doctrine |-> [generate |-> FALSE],
     entityFramework |-> FALSE,
     entityFrameworkCore |-> FALSE]

\* "apply settings... frameworks": the default of the doctrine flag is the
\* object SETTINGS.doctrine, which !!defaultValue turns into true
ApplyConfigFile(S, cf) ==
    [doctrine |-> [generate |-> toBooleanSafe(cf.doctrine, TRUE)],
     entityFramework |-> toBooleanSafe(cf.entityFramework, S.entityFramework),
     entityFrameworkCore |->
         toBooleanSafe(cf.entityFrameworkCore, S.entityFrameworkCore)]

\* Enumerable.from(ARGS).all(a => true === a), for an option that is given
Option(arg, setting) == IF arg = "absent" THEN setting ELSE arg = "true"

\* CONFIG_FILES.forEach(cf => ...), one file
LoadConfigFile ==
    /\ cli.pc = "config"
    /\ cli.CONFIG_FILES # <<>>
    /\ LET cf == Head(cli.CONFIG_FILES)
           after == ApplyConfigFile(cli.SETTINGS, cf)
       IN cli' = [cli EXCEPT
                    !.CONFIG_FILES = Tail(@),
                    !.SETTINGS = after,
                    !.loaded = Append(@, [file |-> cf, before |-> cli.SETTINGS,
                                          after |-> after])]
    /\ UNCHANGED <<compVars, classVars, applied>>

\* for (const A in CMD_ARGS) ...
ParseCommandLine ==
    /\ cli.pc = "config"
    /\ cli.CONFIG_FILES = <<>>
    /\ cli' = [cli EXCEPT
                 !.pc = "options",
                 !.SETTINGS =
                     [doctrine |-> [generate |->
                          Option(cli.CMD_ARGS.doctrine, @.doctrine.generate)],
                      entityFramework |->
                          Option(cli.CMD_ARGS.entityFramework, @.entityFramework),
                      entityFrameworkCore |->
                          Option(cli.CMD_ARGS.entityFrameworkCore,
                                 @.entityFrameworkCore)]]
    /\ UNCHANGED <<compVars, classVars, applied>>

\* frameworks.push(...) per selected target; showHelp(4) without a target
SelectFrameworks ==
    /\ cli.pc = "options"
    /\ LET frameworks ==
             (IF cli.SETTINGS.doctrine.generate THEN <<Doctrine>> ELSE <<>>)
               \o (IF cli.SETTINGS.entityFramework
                     THEN <<EntityFramework>> ELSE <<>>)
               \o (IF cli.SETTINGS.entityFrameworkCore
                     THEN <<EntityFrameworkCore>> ELSE <<>>)
       IN cli' = [cli EXCEPT
                    !.pc = IF frameworks = <<>> THEN "help" ELSE "selected",
                    !.frameworks = frameworks]
    /\ UNCHANGED <<compVars, classVars, applied>>

InitSettings ==
    /\ schema = <<>>
    /\ target = Doctrine
    /\ callbacks = [onBeforeGenerateClass |-> TRUE, onClassGenerated |-> TRUE]
    /\ fault = NoFault
    /\ CompilerAtRest
    /\ NoClass
    /\ \E files \in ConfigFileLists, args \in CommandLines :
         cli = [pc |-> "config", SETTINGS |-> SETTINGS,
                CONFIG_FILES |-> files, CMD_ARGS |-> args,
                loaded |-> <<>>, frameworks |-> <<>>]

NextSettings ==
    \/ LoadConfigFile
    \/ ParseCommandLine
    \/ SelectFrameworks

SpecSettings == InitSettings /\ [][NextSettings]_vars

SettingOf(S, name) ==
    IF name = "doctrine" THEN S.doctrine.generate ELSE S[name]
FrameworkOf(name) ==
    IF name = "doctrine" THEN Doctrine
    ELSE IF name = "entityFramework" THEN EntityFramework
    ELSE EntityFrameworkCore
\* a config file that was loaded, or the command line, says true for it
ExplicitlyEnabled(name) ==
    \/ cli.CMD_ARGS[name] = "true"
    \/ \E i \in DOMAIN cli.loaded :
         /\ ~isEmptyString(cli.loaded[i].file[name])
         /\ toBooleanSafe(cli.loaded[i].file[name], FALSE)

\* C29: loading a config file that does not specify a framework flag leaves
\* that framework's selection as it was before the file was loaded, and a
\* target is selected only if a config file or an option of the command
\* line explicitly enabled it.
C29_AsStated ==
    cli.pc \in {"config", "options", "selected", "help"} =>
        \A name \in {"doctrine", "entityFramework", "entityFrameworkCore"} :
            /\ \A i \in DOMAIN cli.loaded :
                 isEmptyString(cli.loaded[i].file[name]) =>
                     SettingOf(cli.loaded[i].after, name)
                         = SettingOf(cli.loaded[i].before, name)
            /\ (cli.pc = "selected"
                  /\ \E t \in DOMAIN cli.frameworks :
                        cli.frameworks[t] = FrameworkOf(name)) =>
                 ExplicitlyEnabled(name)

====
